---- MODULE Spec2Model ----
(***************************************************************************)
(* Model of digi/xbee/profile.py: the entry point apply_xbee_profile, the  *)
(* phased orchestrator _ProfileUpdater.update_profile and the part of      *)
(* XBeeProfile (lazy extraction, parsed fields) the orchestrator consumes. *)
(*                                                                         *)
(* One call of apply_xbee_profile is modelled from "idle" to "done".  The  *)
(* collaborators outside profile.py (device handle, firmware engine,       *)
(* file-system managers, zip/tempfile) answer nondeterministically: each   *)
(* action draws their answers with \E from the small sets below.           *)
(***************************************************************************)
EXTENDS Integers, Sequences, FiniteSets, TLC

-----------------------------------------------------------------------------
(* Bounds of the model *)

\* longest list of declared settings drawn for a profile
MaxSettings == 2

-----------------------------------------------------------------------------
(* Program constants *)

_REMOTE_DEFAULT_TIMEOUT == 20
_LOCAL_DEFAULT_TIMEOUT == 3
_PARAMETER_READ_RETRIES == 3
_PARAMETER_WRITE_RETRIES == 3

_PARAMETERS_SERIAL_PORT == {"BD", "NB", "SB", "D7"}
_PARAMETERS_CACHE == {"NI", "CE", "SM", "BR", "MY"}
_PARAMETERS_NETWORK == {"ID", "CH", "HP", "CM", "BR", "EE", "KY"}

\* FlashFirmwareOption codes
FLASH_ALWAYS == 0
FLASH_DIFFERENT == 1
DONT_FLASH == 2

\* OperatingMode codes used by the orchestrator
AT_MODE == 0
API_MODE == 1
ESCAPED_API_MODE == 2

\* Python's None where the code stores a number, and where it stores bytes
None == -1
NoneBytes == <<None>>

-----------------------------------------------------------------------------
(* Input domains *)

TargetKinds == {"port", "local", "remote", "invalid"}

\* firmware versions: 0 is what the orchestrator assumes for a recovery port
FirmwareVersions == {0, 1}
DeviceFirmwareVersions == {1}
HardwareVersions == {1, 2}
\* firmware.SUPPORTED_HARDWARE_VERSIONS / filesystem.SUPPORTED_HARDWARE_VERSIONS
FirmwareSupportedHardware == {1}
FilesystemSupportedHardware == {1}

Protocols == {"ZIGBEE", "DIGI_MESH", "RAW_802_15_4"}

\* the declared settings a profile may hold: name, raw value (a hex number)
SettingPool ==
    << [name |-> "ID", value |-> 1],
       [name |-> "AP", value |-> 2],
       [name |-> "NI", value |-> 1],
       [name |-> "BD", value |-> 7] >>

\* profile_settings is a dict keyed by name: insertion ordered, names unique.
\* The lists drawn are the sublists of SettingPool of at most MaxSettings
\* settings.
SettingLists ==
    UNION { { [i \in 1..n |-> SettingPool[idx[i]]] :
                idx \in { f \in [1..n -> 1..Len(SettingPool)] :
                            \A i, j \in 1..n : i < j => f[i] < f[j] } } :
            n \in 0..MaxSettings }

\* answers of the device to the successive attempts of one parameter operation
Answers ==
    << <<"ok", "ok", "ok">>,
       <<"ATCommandException", "TimeoutException", "ok">>,
       <<"TimeoutException", "ATCommandException", "TimeoutException">>,
       <<"XBeeException", "ok", "ok">> >>

ResponseScripts == { Answers[i] : i \in DOMAIN Answers }

\* the answers to the successive apply changes (AC) operations: the first one
\* succeeds, only the last one succeeds, none succeeds
ApplyChangesScripts ==
    { <<Answers[1], Answers[1], Answers[1]>>,
      <<Answers[3], Answers[4], Answers[2]>>,
      <<Answers[3], Answers[4], Answers[3]>> }

\* whether the successive read_device_info() calls return
ReadDeviceInfoScripts ==
    { <<TRUE, TRUE, TRUE>>, <<FALSE, FALSE, TRUE>>, <<FALSE, FALSE, FALSE>> }

\* the timeout argument of apply_xbee_profile (0: not passed)
TimeoutArguments == {0}

\* the file system payload of the archive: the values of
\* (has_local_filesystem, has_remote_filesystem)
FilesystemPayloads == {"none", "local", "remote"}

-----------------------------------------------------------------------------
(* State *)

VARIABLES
    pc,        \* position of the call: idle, update_profile, ..., finally, done
    target,    \* kind of the target argument
    profile,   \* the parsed XBeeProfile
    device,    \* the device handle (XBeeDevice / RemoteXBeeDevice) state
    updater,   \* the fields of _ProfileUpdater and the locals of its methods
    exc,       \* the exception in flight, and at "done" the one the caller gets
    first_exc, \* history: the first exception raised inside update_profile
    entry,     \* history: the device handle's state when update_profile began
    calls,     \* history: the collaborator calls made, in order
    archive    \* the content of the archive XBeeProfile.__init__ is parsing

vars == <<pc, target, profile, device, updater, exc, first_exc, entry, calls,
          archive>>

NoException == [type |-> "None", msg |-> "None"]
Raise(type, msg) == [type |-> type, msg |-> msg]

\* one collaborator call: what was called, with which command and value, at
\* which place of the code (site), and whether it returned (ok) or raised
Call(op, cmd, val, site, ok) ==
    [op |-> op, cmd |-> cmd, val |-> val, site |-> site, ok |-> ok]

\* the phase of update_profile a call site belongs to (0: entry point, setup)
PhaseOf(site) ==
    CASE site \in {"entry", "setup"} -> 0
      [] site = "read" -> 1
      [] site \in {"firmware", "recovery_open"} -> 2
      [] site \in {"settings_begin", "settings_loop", "settings_commit",
                   "settings_finish"} -> 3
      [] site = "filesystem" -> 4
      [] site = "finally" -> 5

NoProfile ==
    [ flash_firmware_option |-> FLASH_DIFFERENT,
      reset_settings |-> TRUE,
      firmware_version |-> None,
      hardware_version |-> None,
      profile_settings |-> <<>>,
      filesystem_payload |-> "unread",
      has_local_firmware |-> FALSE,
      protocol |-> "UNKNOWN",
      profile_folder |-> "None" ]

\* the profiles XBeeProfile(profile_path) can produce for a target of kind t.
\* has_local_firmware is consulted for a serial port target only.  The file
\* system payload is an input that update_profile first consults at line
\* 1876: it is drawn there, and "unread" before.
Profiles(t) ==
    [ flash_firmware_option : {FLASH_ALWAYS, FLASH_DIFFERENT, DONT_FLASH},
      reset_settings : BOOLEAN,
      firmware_version : FirmwareVersions,
      hardware_version : HardwareVersions,
      profile_settings : SettingLists,
      filesystem_payload : {"unread"},
      has_local_firmware : IF t = "port" THEN BOOLEAN ELSE {TRUE},
      protocol : Protocols,
      profile_folder : {"None"} ]

NoDevice ==
    [ open |-> FALSE, sync_ops_timeout |-> None, apply_changes |-> FALSE,
      operating_mode |-> None, firmware_version |-> None,
      hardware_version |-> None, supports_apply_profile |-> FALSE ]

\* the states a device handle passed as target can be in
DeviceHandles(t) ==
    [ open : IF t = "local" THEN BOOLEAN ELSE {TRUE},
      sync_ops_timeout : {4},
      apply_changes : BOOLEAN,
      operating_mode : IF t = "local" THEN {API_MODE, ESCAPED_API_MODE}
                       ELSE {API_MODE},
      firmware_version : DeviceFirmwareVersions,
      hardware_version : HardwareVersions,
      supports_apply_profile : BOOLEAN ]

\* no archive is being parsed: apply_xbee_profile holds a parsed profile
NoArchive == [at_settings |-> <<>>, raw_settings |-> <<>>, firmware_settings |-> {}]

NoUpdater ==
    [ xbee_device |-> "None",
      timeout |-> None,
      was_connected |-> TRUE,
      device_firmware_version |-> None,
      device_hardware_version |-> None,
      protocol_changed_by_fw |-> FALSE,
      protocol_changed_by_settings |-> FALSE,
      is_local |-> TRUE,
      xpro_ap |-> NoneBytes,
      old_sync_ops_timeout |-> None,
      old_apply_settings_value |-> FALSE,
      network_settings_changed |-> FALSE,
      cache_settings_changed |-> FALSE,
      setting_index |-> 0,
      next_setting |-> 0,
      num_settings |-> 0,
      percent |-> 0,
      previous_percent |-> 0,
      retries |-> 0,
      ac_retries |-> 0 ]

Init ==
    /\ pc = "idle"
    /\ target = "None"
    /\ profile = NoProfile
    /\ device = NoDevice
    /\ updater = NoUpdater
    /\ exc = NoException
    /\ first_exc = NoException
    /\ entry = NoDevice
    /\ calls = <<>>
    /\ archive = NoArchive

-----------------------------------------------------------------------------
(* Helpers of _ProfileUpdater *)

\* _read_parameter_with_retries: up to `retries` attempts, retrying after a
\* timeout only; resp is what the device answers to the successive attempts.
\* The result tells what was raised ("None": the value was returned).
RECURSIVE _read_parameter_with_retries(_, _)
_read_parameter_with_retries(resp, retries) ==
    IF retries > 0
    THEN IF Head(resp) = "ok" THEN "None"
         ELSE IF Head(resp) = "TimeoutException"
              THEN _read_parameter_with_retries(Tail(resp), retries - 1)
              ELSE Head(resp)
    ELSE "XBeeException"

\* _set_parameter_with_retries: up to `retries` attempts, retrying after a
\* timeout or an AT command error.
RECURSIVE _set_parameter_with_retries(_, _)
_set_parameter_with_retries(resp, retries) ==
    IF retries > 0
    THEN IF Head(resp) = "ok" THEN "None"
         ELSE IF Head(resp) \in {"TimeoutException", "ATCommandException"}
              THEN _set_parameter_with_retries(Tail(resp), retries - 1)
              ELSE Head(resp)
    ELSE "XBeeException"

\* XBeeProtocol.determine_protocol(hardware_version, firmware_version): the
\* protocol family a (hardware, firmware) pair implies
determine_protocol(hw, fw) ==
    IF fw = 0 THEN "RAW_802_15_4" ELSE "ZIGBEE"

\* _check_protocol_changed_by_fw
_check_protocol_changed_by_fw(orig_protocol, prof) ==
    /\ orig_protocol # determine_protocol(prof.hardware_version, prof.firmware_version)
    /\ prof.flash_firmware_option < 2

\* the assignment _check_protocol_changed_by_settings makes to the profile
ResolvedProtocol(prof) ==
    IF prof.protocol = "DIGI_MESH"
    THEN determine_protocol(prof.hardware_version, prof.firmware_version)
    ELSE prof.protocol

\* _check_protocol_changed_by_settings, on the profile it has just updated
_check_protocol_changed_by_settings(orig_protocol, prof) ==
    /\ orig_protocol # prof.protocol
    /\ prof.flash_firmware_option < 2

-----------------------------------------------------------------------------
(* Entry point *)

\* _ProfileUpdater.__init__
NewUpdater(t, tmo) ==
    [ NoUpdater EXCEPT
        !.xbee_device = IF t = "port" THEN "None" ELSE "device",
        !.timeout = tmo,
        !.is_local = (t # "remote") ]

\* the default the entry point gives to a timeout that was not passed
DefaultTimeout(t) ==
    IF t \in {"port", "remote"} THEN _REMOTE_DEFAULT_TIMEOUT ELSE _LOCAL_DEFAULT_TIMEOUT

\* a serial port target is accepted with any profile
AnyProfileForPort(t, prof) == FALSE

\* apply_xbee_profile lines 1955-1956: a serial port needs the firmware files
RequiresLocalFirmware(t, prof) == t = "port" /\ ~prof.has_local_firmware

\* the orchestrator is always run
NeverDelegates(t, dev) == FALSE

\* apply_xbee_profile lines 1962-1964: the comm interface of the device
\* applies the profile itself
Delegates(t, dev) == t # "port" /\ dev.supports_apply_profile

\* apply_xbee_profile up to the call of update_profile, on a target drawn from
\* Targets with the profiles and device handles given for each target.  path_ok:
\* profile_path is a string; parse_error: the exception XBeeProfile() raised,
\* if any.
apply_xbee_profile(Targets, ProfilesOf, HandlesOf) ==
    /\ pc = "idle"
    /\ \E t \in Targets, tmo \in TimeoutArguments :
       \E path_ok \in IF t = "invalid" THEN {TRUE} ELSE BOOLEAN :
       \E parse_error \in IF t = "invalid" \/ ~path_ok THEN {"None"}
                           ELSE {"None", "ValueError", "ReadProfileException"} :
       \E prof \in IF t = "invalid" \/ ~path_ok \/ parse_error # "None"
                    THEN {NoProfile} ELSE ProfilesOf[t] :
       \E dev \in IF t \in {"local", "remote"} THEN HandlesOf[t] ELSE {NoDevice} :
          /\ target' = t
          /\ device' = dev
          /\ entry' = dev
          /\ first_exc' = NoException
          /\ UNCHANGED archive
          /\ IF t = "invalid"
             THEN /\ exc' = Raise("ValueError", "TargetInvalid")
                  /\ pc' = "done"
                  /\ UNCHANGED <<profile, updater, calls>>
             ELSE IF ~path_ok
             THEN /\ exc' = Raise("ValueError", "ProfileInvalid")
                  /\ pc' = "done"
                  /\ UNCHANGED <<profile, updater, calls>>
             ELSE IF parse_error # "None"
             THEN /\ exc' = Raise("UpdateProfileException", "InvalidProfile")
                  /\ pc' = "done"
                  /\ UNCHANGED <<profile, updater, calls>>
             ELSE IF RequiresLocalFirmware(t, prof)
             THEN /\ exc' = Raise("UpdateProfileException", "InvalidProfile")
                  /\ pc' = "done"
                  /\ profile' = prof
                  /\ UNCHANGED <<updater, calls>>
             ELSE IF Delegates(t, dev)
             THEN /\ exc' = NoException
                  /\ pc' = "done"
                  /\ profile' = prof
                  /\ calls' = Append(calls, Call("apply_profile", "", 0, "entry", TRUE))
                  /\ UNCHANGED updater
             ELSE /\ exc' = NoException
                  /\ pc' = "update_profile"
                  /\ profile' = prof
                  /\ updater' = NewUpdater(t, IF tmo = 0 THEN DefaultTimeout(t) ELSE tmo)
                  /\ UNCHANGED calls

\* apply_xbee_profile on the targets, profiles and device handles of the
\* bounded domains
ApplyXBeeProfile ==
    apply_xbee_profile(TargetKinds, [t \in TargetKinds |-> Profiles(t)],
                       [t \in TargetKinds |-> DeviceHandles(t)])

-----------------------------------------------------------------------------
(* update_profile: setup and reading of the device parameters *)

\* an exception that leaves update_profile without its finally block
RaiseSkipsCleanup(type, msg) ==
    /\ exc' = Raise(type, msg)
    /\ first_exc' = IF first_exc = NoException THEN Raise(type, msg) ELSE first_exc
    /\ pc' = "done"

\* an exception raised inside the try block of update_profile: control goes
\* to the finally block with the exception in flight
RaiseInTry(type, msg) ==
    /\ exc' = Raise(type, msg)
    /\ first_exc' = IF first_exc = NoException THEN Raise(type, msg) ELSE first_exc
    /\ pc' = "finally"

\* a hardware check that only rejects a device older than the profile's
HardwareOlderOnly(device_hardware_version, prof) ==
    device_hardware_version < prof.hardware_version

\* update_profile line 1838: the profile was made for other hardware
HardwareNotCompatible(device_hardware_version, prof) ==
    device_hardware_version # prof.hardware_version

\* update_profile lines 1837-1842, once firmware version dfw and hardware
\* version dhw were read from a device whose protocol is orig_protocol
VerifyHardwareAndProtocol(u, dfw, dhw, orig_protocol) ==
    LET u1 == [u EXCEPT !.device_firmware_version = dfw,
                        !.device_hardware_version = dhw]
        prof1 == [profile EXCEPT !.protocol = ResolvedProtocol(profile)]
    IN IF HardwareNotCompatible(dhw, profile)
       THEN /\ updater' = u1
            /\ RaiseInTry("UpdateProfileException", "HardwareIncompatible")
            /\ UNCHANGED profile
       ELSE /\ updater' =
                 [u1 EXCEPT
                    !.protocol_changed_by_fw =
                        _check_protocol_changed_by_fw(orig_protocol, profile),
                    !.protocol_changed_by_settings =
                        _check_protocol_changed_by_settings(orig_protocol, prof1)]
            /\ profile' = prof1
            /\ pc' = "check_flash"
            /\ UNCHANGED <<exc, first_exc>>

\* update_profile lines 1827-1831: the timeout override on a device handle
OverrideTimeout(d, tmo) == [d EXCEPT !.sync_ops_timeout = tmo]

\* update_profile up to the flash decision, local device: timeout override,
\* _read_device_parameters (open when closed; versions taken from the handle)
ReadDeviceParametersLocal ==
    /\ pc = "update_profile"
    /\ updater.xbee_device = "device"
    /\ updater.is_local
    /\ \E open_ok \in IF device.open THEN {TRUE} ELSE BOOLEAN,
          orig_protocol \in {"ZIGBEE"} :
        LET dfw == device.firmware_version
            dhw == device.hardware_version
            d0 == OverrideTimeout(device, updater.timeout)
            u0 == [updater EXCEPT !.old_sync_ops_timeout = device.sync_ops_timeout,
                                  !.was_connected = device.open]
            c0 == Append(calls, Call("set_sync_ops_timeout", "", updater.timeout, "setup", TRUE))
        IN IF ~device.open /\ ~open_ok
           THEN /\ device' = d0
                /\ updater' = u0
                /\ calls' = Append(c0, Call("open", "", 0, "read", FALSE))
                /\ RaiseInTry("UpdateProfileException", "OpenDevice")
                /\ UNCHANGED profile
           ELSE /\ device' = [d0 EXCEPT !.open = TRUE]
                /\ calls' = IF device.open THEN c0
                             ELSE Append(c0, Call("open", "", 0, "read", TRUE))
                /\ VerifyHardwareAndProtocol(u0, dfw, dhw, orig_protocol)
    /\ UNCHANGED <<target, entry, archive>>

\* the same for a remote device: VR and HV are read with retries
ReadDeviceParametersRemote ==
    /\ pc = "update_profile"
    /\ updater.xbee_device = "device"
    /\ ~updater.is_local
    /\ \E vr \in ResponseScripts :
       \E hv \in IF _read_parameter_with_retries(vr, _PARAMETER_READ_RETRIES) = "None"
                  THEN ResponseScripts ELSE {Answers[1]},
          orig_protocol \in {"ZIGBEE"} :
        LET dfw == device.firmware_version
            dhw == device.hardware_version
            d0 == OverrideTimeout(device, updater.timeout)
            u0 == [updater EXCEPT !.old_sync_ops_timeout = device.sync_ops_timeout]
            c0 == Append(calls, Call("set_sync_ops_timeout", "", updater.timeout, "setup", TRUE))
            vr_raised == _read_parameter_with_retries(vr, _PARAMETER_READ_RETRIES)
            hv_raised == _read_parameter_with_retries(hv, _PARAMETER_READ_RETRIES)
            c1 == Append(c0, Call("get_parameter", "VR", 0, "read", vr_raised = "None"))
            c2 == Append(c1, Call("get_parameter", "HV", 0, "read", hv_raised = "None"))
        IN /\ device' = d0
           /\ IF vr_raised # "None"
              THEN /\ calls' = c1
                   /\ updater' = u0
                   /\ RaiseInTry("UpdateProfileException", "ReadRemoteParameter")
                   /\ UNCHANGED profile
              ELSE IF hv_raised # "None"
              THEN /\ calls' = c2
                   /\ updater' = [u0 EXCEPT !.device_firmware_version = dfw]
                   /\ RaiseInTry("UpdateProfileException", "ReadRemoteParameter")
                   /\ UNCHANGED profile
              ELSE /\ calls' = c2
                   /\ VerifyHardwareAndProtocol(u0, dfw, dhw, orig_protocol)
    /\ UNCHANGED <<target, entry, archive>>

\* update_profile lines 1843-1849: a serial port was given (recovery)
SerialPortGiven ==
    /\ pc = "update_profile"
    /\ updater.xbee_device = "None"
    /\ updater' = [updater EXCEPT !.was_connected = FALSE,
                                  !.device_firmware_version = 0,
                                  !.device_hardware_version = None,
                                  !.protocol_changed_by_fw = FALSE,
                                  !.protocol_changed_by_settings = FALSE]
    /\ pc' = "check_flash"
    /\ UNCHANGED <<target, profile, device, exc, first_exc, entry, calls, archive>>

-----------------------------------------------------------------------------
(* update_profile: firmware *)

\* a flash decision that flashes whenever flashing is not forbidden
FlashUnlessForbidden(option, firmware_is_the_same) ==
    option # DONT_FLASH

\* update_profile lines 1852-1857: the flash_firmware flag
FlashFirmware(option, firmware_is_the_same) ==
    \/ option = FLASH_ALWAYS
    \/ option = FLASH_DIFFERENT /\ ~firmware_is_the_same

\* a compatibility check that lets every firmware pass
FirmwareAlwaysCompatible(option, firmware_is_the_same) ==
    FALSE

\* update_profile lines 1858-1860: the profile cannot be applied without flashing
FirmwareNotCompatible(option, firmware_is_the_same) ==
    option = DONT_FLASH /\ ~firmware_is_the_same

\* update_profile line 1862: whether _update_firmware is called
MustUpdateFirmware(xbee_device, flash_firmware) ==
    xbee_device = "None" \/ flash_firmware

\* XBeeProfile._uncompress_profile: mkdtemp, then extractall
ExtractOutcomes == {"ok", "mkdtemp_failed", "extractall_failed"}

\* the profile after an asset accessor (firmware_description_file, ...) ran:
\* the folder is recorded as soon as mkdtemp succeeded
Uncompressed(prof, outcome) ==
    IF prof.profile_folder = "None" /\ outcome # "mkdtemp_failed"
    THEN [prof EXCEPT !.profile_folder = "tmp"]
    ELSE prof

\* whether the asset accessor raises ReadProfileException
UncompressRaises(prof, outcome) ==
    prof.profile_folder = "None" /\ outcome # "ok"

\* the calls log after an asset accessor ran
WithUncompress(c, prof, outcome, site) ==
    IF prof.profile_folder = "None"
    THEN Append(c, Call("_uncompress_profile", "", 0, site, outcome = "ok"))
    ELSE c

\* update_profile lines 1851-1868 with _update_firmware
UpdateFirmware ==
    /\ pc = "check_flash"
    /\ \E outcome \in ExtractOutcomes :
       \E flash_ok \in IF outcome = "ok" THEN BOOLEAN ELSE {TRUE} :
       \E open_after \in IF ~flash_ok /\ target = "local" THEN BOOLEAN ELSE {TRUE} :
        LET same == updater.device_firmware_version = profile.firmware_version
            flash_firmware == FlashFirmware(profile.flash_firmware_option, same)
            hw == updater.device_hardware_version
        IN IF FirmwareNotCompatible(profile.flash_firmware_option, same)
           THEN /\ RaiseInTry("UpdateProfileException", "FirmwareIncompatible")
                /\ UNCHANGED <<profile, device, calls>>
           ELSE IF ~MustUpdateFirmware(updater.xbee_device, flash_firmware)
           THEN /\ pc' = "settings"
                /\ UNCHANGED <<profile, device, calls, exc, first_exc>>
           ELSE IF hw # None /\ hw \notin FirmwareSupportedHardware
           THEN /\ RaiseInTry("UpdateProfileException", "UnsupportedHardware")
                /\ UNCHANGED <<profile, device, calls>>
           ELSE IF UncompressRaises(profile, outcome)
           THEN /\ profile' = Uncompressed(profile, outcome)
                /\ calls' = WithUncompress(calls, profile, outcome, "firmware")
                /\ RaiseInTry("ReadProfileException", "Uncompress")
                /\ UNCHANGED device
           ELSE /\ profile' = Uncompressed(profile, outcome)
                /\ calls' = Append(WithUncompress(calls, profile, outcome, "firmware"),
                                   Call("update_firmware", "", 0, "firmware", flash_ok))
                /\ IF flash_ok
                   THEN /\ pc' = IF updater.xbee_device = "None"
                                  THEN "recovery_open" ELSE "settings"
                        /\ UNCHANGED <<device, exc, first_exc>>
                   ELSE /\ RaiseInTry("UpdateProfileException", "FirmwareUpdateFailed")
                        /\ device' = IF updater.xbee_device = "device" /\ updater.is_local
                                      THEN [device EXCEPT !.open = open_after]
                                      ELSE device
    /\ UNCHANGED <<target, updater, entry, archive>>

\* XBeeDevice(port=..., baud_rate=9600) as constructed, before open()
NewXBeeDevice ==
    [ open |-> FALSE, sync_ops_timeout |-> 4, apply_changes |-> TRUE,
      operating_mode |-> None, firmware_version |-> None,
      hardware_version |-> None, supports_apply_profile |-> FALSE ]

\* update_profile lines 1869-1872: the handle built on the recovery port
RecoveryOpen ==
    /\ pc = "recovery_open"
    /\ \E open_ok \in BOOLEAN :
       \E mode \in IF open_ok THEN {API_MODE, ESCAPED_API_MODE} ELSE {API_MODE},
          dhw \in IF open_ok THEN HardwareVersions ELSE {1} :
        IF open_ok
        THEN /\ device' = [NewXBeeDevice EXCEPT !.open = TRUE, !.operating_mode = mode,
                                               !.hardware_version = dhw]
             /\ updater' = [updater EXCEPT !.xbee_device = "device",
                                           !.device_hardware_version = dhw]
             /\ calls' = Append(calls, Call("open", "", 0, "recovery_open", TRUE))
             /\ pc' = "settings"
             /\ UNCHANGED <<exc, first_exc>>
        ELSE /\ device' = NewXBeeDevice
             /\ updater' = [updater EXCEPT !.xbee_device = "device"]
             /\ calls' = Append(calls, Call("open", "", 0, "recovery_open", FALSE))
             /\ RaiseInTry("XBeeException", "OpenDevice")
    /\ UNCHANGED <<target, profile, entry, archive>>

-----------------------------------------------------------------------------
(* update_profile: settings (_update_device_settings) *)

\* setting.bytearray_value of a declared setting: its raw hex value as bytes
bytearray_value(setting) == <<setting.value>>

\* the integer percentage the settings phase computes
Percent(setting_index, num_settings) == (setting_index * 100) \div num_settings

\* a progress callback that is called at every step
WithProgressAlways(c, percent, previous_percent, site) ==
    Append(c, Call("progress", "", percent, site, TRUE))

\* the progress callback is called only when the percentage changed
WithProgress(c, percent, previous_percent, site) ==
    IF percent # previous_percent
    THEN Append(c, Call("progress", "", percent, site, TRUE))
    ELSE c

\* a settings phase that is never skipped
NeverSkipped(prof, t) == FALSE

\* lines 1598-1600: nothing to apply or reset
NothingToApply(prof, t) ==
    Len(prof.profile_settings) = 0 /\ ~prof.reset_settings /\ t # "port"

\* a settings phase that takes every node as reachable
AlwaysReachable(prof, t, u) == FALSE

\* lines 1605-1607: a remote node whose protocol the new firmware changed
SettingsUnreachable(prof, t, u) ==
    /\ t = "remote"
    /\ u.protocol_changed_by_fw
    /\ (Len(prof.profile_settings) > 0 \/ prof.reset_settings)

\* a restore defaults that only the profile can ask for
ResetOnRequestOnly(prof, t) == prof.reset_settings

\* line 1626: a restore defaults (RE) is issued first
ResetRequired(prof, t) == prof.reset_settings \/ t = "port"

\* a reset that remembers the operating mode the device is in
RemembersCurrentMode(d) == <<d.operating_mode>>

\* line 1640: what is remembered as the operating mode to apply at the end
\* when defaults are restored on a local device
RememberedOnReset(d) == <<AT_MODE>>

\* lines 1597-1645: the guards, the auto-apply switch and the reset
SettingsBegin ==
    /\ pc = "settings"
    /\ \E re \in ResponseScripts :
       \E ap \in IF updater.is_local
                      /\ _set_parameter_with_retries(re, _PARAMETER_WRITE_RETRIES) = "None"
                  THEN ResponseScripts ELSE {Answers[1]} :
        IF NothingToApply(profile, target)
        THEN /\ pc' = "filesystem"
             /\ UNCHANGED <<device, updater, calls, exc, first_exc>>
        ELSE IF SettingsUnreachable(profile, target, updater)
        THEN /\ RaiseInTry("UpdateProfileException", "SettingsUnreachable")
             /\ UNCHANGED <<device, updater, calls>>
        ELSE
          LET reset == ResetRequired(profile, target)
              num == Len(profile.profile_settings) + 2 + (IF reset THEN 1 ELSE 0)
              u0 == [updater EXCEPT
                       !.old_apply_settings_value = device.apply_changes,
                       !.network_settings_changed = FALSE,
                       !.cache_settings_changed = FALSE,
                       !.previous_percent = 0, !.percent = 0,
                       !.setting_index = 1, !.next_setting = 1,
                       !.num_settings = num]
              c0 == Append(Append(calls,
                        Call("enable_apply_changes", "", 0, "settings_begin", TRUE)),
                        Call("progress", "", 0, "settings_begin", TRUE))
              pct == Percent(1, num)
              c1 == WithProgress(c0, pct, 0, "settings_begin")
              re_raised == _set_parameter_with_retries(re, _PARAMETER_WRITE_RETRIES)
              ap_raised == _set_parameter_with_retries(ap, _PARAMETER_WRITE_RETRIES)
              c2 == Append(c1, Call("set_parameter", "RE", 0, "settings_begin",
                                    re_raised = "None"))
              c3 == Append(c2, Call("set_parameter", "AP", device.operating_mode,
                                    "settings_begin", ap_raised = "None"))
              u1 == [u0 EXCEPT !.percent = pct, !.previous_percent = pct]
              u2 == [u1 EXCEPT !.setting_index = 2,
                               !.network_settings_changed = TRUE,
                               !.cache_settings_changed = TRUE]
              u3 == [u2 EXCEPT !.xpro_ap = RememberedOnReset(device)]
          IN /\ device' = [device EXCEPT !.apply_changes = FALSE]
             /\ IF ~reset
                THEN /\ updater' = u0
                     /\ calls' = c0
                     /\ pc' = "settings_loop"
                     /\ UNCHANGED <<exc, first_exc>>
                ELSE IF re_raised # "None"
                THEN /\ updater' = u1
                     /\ calls' = c2
                     /\ RaiseInTry("UpdateProfileException", "UpdateSettings")
                ELSE IF ~updater.is_local
                THEN /\ updater' = u2
                     /\ calls' = c2
                     /\ pc' = "settings_loop"
                     /\ UNCHANGED <<exc, first_exc>>
                ELSE IF ap_raised # "None"
                THEN /\ updater' = u3
                     /\ calls' = c3
                     /\ RaiseInTry("UpdateProfileException", "UpdateSettings")
                ELSE /\ updater' = u3
                     /\ calls' = c3
                     /\ pc' = "settings_loop"
                     /\ UNCHANGED <<exc, first_exc>>
    /\ UNCHANGED <<target, profile, entry, archive>>

\* a loop that writes every declared setting, the operating mode included
WithholdNothing(is_local, name) == FALSE

\* line 1654: the operating mode of a local device is not written in the loop
WithholdOperatingMode(is_local, name) == is_local /\ name = "AP"

\* lines 1647-1664: one iteration of the loop over the declared settings
SettingsLoop ==
    /\ pc = "settings_loop"
    /\ updater.next_setting <= Len(profile.profile_settings)
    /\ \E resp \in ResponseScripts :
        LET setting == profile.profile_settings[updater.next_setting]
            pct == Percent(updater.setting_index, updater.num_settings)
            c0 == WithProgress(calls, pct, updater.previous_percent, "settings_loop")
            u0 == [updater EXCEPT !.percent = pct, !.previous_percent = pct]
            withheld == WithholdOperatingMode(updater.is_local, setting.name)
            raised == IF withheld THEN "None"
                      ELSE _set_parameter_with_retries(resp, _PARAMETER_WRITE_RETRIES)
            c1 == IF withheld THEN c0
                  ELSE Append(c0, Call("set_parameter", setting.name, setting.value,
                                       "settings_loop", raised = "None"))
            u1 == IF withheld THEN [u0 EXCEPT !.xpro_ap = bytearray_value(setting)]
                  ELSE u0
            u2 == [u1 EXCEPT
                     !.setting_index = @ + 1,
                     !.next_setting = @ + 1,
                     !.network_settings_changed =
                         @ \/ setting.name \in _PARAMETERS_NETWORK,
                     !.cache_settings_changed =
                         @ \/ setting.name \in _PARAMETERS_CACHE]
        IN /\ calls' = c1
           /\ IF raised # "None"
              THEN /\ updater' = u1
                   /\ RaiseInTry("UpdateProfileException", "UpdateSettings")
              ELSE /\ updater' = u2
                   /\ UNCHANGED <<pc, exc, first_exc>>
    /\ UNCHANGED <<target, profile, device, entry, archive>>

\* lines 1680-1690: the apply changes (AC) write is repeated while it raises;
\* acs are the answers to the successive AC operations.  The result is the
\* sequence of ok flags of the AC operations that were made.
RECURSIVE ApplyChangesLoop(_, _)
ApplyChangesLoop(acs, retries) ==
    IF retries > 0
    THEN IF _set_parameter_with_retries(Head(acs), _PARAMETER_WRITE_RETRIES) = "None"
         THEN <<TRUE>>
         ELSE <<FALSE>> \o ApplyChangesLoop(Tail(acs), retries - 1)
    ELSE <<>>

RECURSIVE AppendApplyChanges(_, _)
AppendApplyChanges(c, oks) ==
    IF oks = <<>> THEN c
    ELSE AppendApplyChanges(
            Append(c, Call("set_parameter", "AC", 0, "settings_commit", Head(oks))),
            Tail(oks))

\* lines 1666-1692: write (WR) and apply changes (AC)
SettingsCommit ==
    /\ pc = "settings_loop"
    /\ updater.next_setting > Len(profile.profile_settings)
    /\ \E wr \in ResponseScripts :
       \E acs \in IF _set_parameter_with_retries(wr, _PARAMETER_WRITE_RETRIES) = "None"
                   THEN ApplyChangesScripts
                   ELSE {<<Answers[1], Answers[1], Answers[1]>>} :
        LET pct_wr == Percent(updater.setting_index, updater.num_settings)
            c0 == WithProgress(calls, pct_wr, updater.previous_percent, "settings_commit")
            wr_raised == _set_parameter_with_retries(wr, _PARAMETER_WRITE_RETRIES)
            c1 == Append(c0, Call("set_parameter", "WR", 0, "settings_commit",
                                  wr_raised = "None"))
            u0 == [updater EXCEPT !.percent = pct_wr, !.previous_percent = pct_wr]
            pct_ac == Percent(updater.setting_index + 1, updater.num_settings)
            c2 == WithProgress(c1, pct_ac, pct_wr, "settings_commit")
            u1 == [u0 EXCEPT !.setting_index = @ + 1, !.percent = pct_ac]
            oks == ApplyChangesLoop(acs, _PARAMETER_READ_RETRIES)
            c3 == AppendApplyChanges(c2, oks)
        IN IF wr_raised # "None"
           THEN /\ updater' = u0
                /\ calls' = c1
                /\ RaiseInTry("UpdateProfileException", "UpdateSettings")
           ELSE IF oks[Len(oks)] = FALSE
           THEN /\ updater' = u1
                /\ calls' = c3
                /\ RaiseInTry("UpdateProfileException", "UpdateSettings")
           ELSE /\ updater' = u1
                /\ calls' = c3
                /\ pc' = "settings_finish"
                /\ UNCHANGED <<exc, first_exc>>
    /\ UNCHANGED <<target, profile, device, entry, archive>>

-----------------------------------------------------------------------------
(* _check_port_settings_changed *)

\* FirmwareBaudrate.get / FirmwareParity.get / FirmwareStopbits.get return
\* None for an index they do not list
SerialIndexes(name) ==
    CASE name = "BD" -> 0..10
      [] name = "NB" -> 0..4
      [] name = "SB" -> 0..2
      [] OTHER -> {}

\* lines 1506-1523: reading one declared serial setting; AttributeError when
\* the enumeration lookup gave None
DeclaredSerialError(setting) ==
    IF setting.name \in {"BD", "NB", "SB"} /\ setting.value \notin SerialIndexes(setting.name)
    THEN "AttributeError" ELSE "None"

\* lines 1525-1542: the default of a serial setting the profile does not
\* declare; default is what get_setting_default_value returned
DefaultSerialError(name, default) ==
    IF default = None THEN "TypeError"
    ELSE IF default \notin SerialIndexes(name) THEN "AttributeError"
    ELSE "None"

Declares(prof, name) ==
    \E i \in DOMAIN prof.profile_settings : prof.profile_settings[i].name = name

RECURSIVE FirstError(_)
FirstError(errors) ==
    IF errors = <<>> THEN "None"
    ELSE IF Head(errors) # "None" THEN Head(errors)
    ELSE FirstError(Tail(errors))

\* what lines 1499-1545 raise, if anything; defaults maps BD, NB, SB to the
\* default values of the firmware description
PortSettingsError(prof, t, defaults) ==
    LET declared == [i \in DOMAIN prof.profile_settings |->
                        DeclaredSerialError(prof.profile_settings[i])]
        byDefault == [i \in 1..3 |->
                        LET name == <<"BD", "NB", "SB">>[i]
                        IN IF ResetRequired(prof, t) /\ ~Declares(prof, name)
                           THEN DefaultSerialError(name, defaults[name])
                           ELSE "None"]
    IN FirstError(declared \o byDefault)

\* a check that only looks at the settings the profile declares
ChangedByDeclarationOnly(prof, t) ==
    \E name \in _PARAMETERS_SERIAL_PORT : Declares(prof, name)

\* line 1547: some serial port setting changed
PortSettingsChanged(prof, t) ==
    \/ \E name \in _PARAMETERS_SERIAL_PORT : Declares(prof, name)
    \/ ResetRequired(prof, t)

-----------------------------------------------------------------------------
(* _update_device_settings, after the writes *)

\* lines 1719-1731: read_device_info is repeated while it raises; infos[i]
\* tells whether attempt i returns.  The result is the ok flags of the
\* attempts made.
RECURSIVE ReadDeviceInfoLoop(_, _)
ReadDeviceInfoLoop(infos, retries) ==
    IF retries > 0
    THEN IF Head(infos) THEN <<TRUE>>
         ELSE <<FALSE>> \o ReadDeviceInfoLoop(Tail(infos), retries - 1)
    ELSE <<>>

RECURSIVE AppendReadDeviceInfo(_, _)
AppendReadDeviceInfo(c, oks) ==
    IF oks = <<>> THEN c
    ELSE AppendReadDeviceInfo(
            Append(c, Call("read_device_info", "", 0, "settings_finish", Head(oks))),
            Tail(oks))

\* a check that also looks at the protocol change predicted from the firmware
DropOnAnyPrediction(u) ==
    \/ u.network_settings_changed
    \/ u.protocol_changed_by_settings
    \/ u.protocol_changed_by_fw

\* line 1706: the cached network is dropped
MustDropNetwork(u) == u.network_settings_changed \/ u.protocol_changed_by_settings

\* a check that also looks at the protocol change predicted from the firmware
ReadOnAnyPrediction(u) ==
    \/ u.cache_settings_changed
    \/ u.protocol_changed_by_settings
    \/ u.protocol_changed_by_fw

\* line 1714: the device information is read again
MustReadDeviceInfo(u) == u.cache_settings_changed \/ u.protocol_changed_by_settings

\* line 1695: the auto-apply flag is set back
RestoreApplyChanges(d, old_value) == [d EXCEPT !.apply_changes = old_value]

\* lines 1694-1731: restore auto-apply, serial port, network and cache
SettingsFinish ==
    /\ pc = "settings_finish"
    /\ \E defaults \in IF updater.is_local /\ ResetRequired(profile, target)
                        THEN [{"BD", "NB", "SB"} -> {None, 0}]
                        ELSE {[name \in {"BD", "NB", "SB"} |-> 0]},
          reconf \in IF updater.is_local /\ PortSettingsChanged(profile, target)
                     THEN {"ok", "close", "apply_settings", "open"} ELSE {"ok"},
          infos \in IF target # "port" /\ MustReadDeviceInfo(updater)
                    THEN ReadDeviceInfoScripts ELSE {<<TRUE, TRUE, TRUE>>} :
        LET d0 == RestoreApplyChanges(device, updater.old_apply_settings_value)
            c0 == Append(calls, Call("enable_apply_changes", "",
                                     IF d0.apply_changes THEN 1 ELSE 0,
                                     "settings_finish", TRUE))
            port_error == IF updater.is_local
                          THEN PortSettingsError(profile, target, defaults)
                          ELSE "None"
            reconfigure == updater.is_local /\ PortSettingsChanged(profile, target)
            \* close(), apply_settings(), open(): the first that raises ends it
            c1 == IF ~reconfigure THEN c0
                  ELSE Append(c0, Call("close", "", 0, "settings_finish", reconf # "close"))
            c2 == IF ~reconfigure \/ reconf = "close" THEN c1
                  ELSE Append(c1, Call("apply_settings", "", 0, "settings_finish",
                                       reconf # "apply_settings"))
            c3 == IF ~reconfigure \/ reconf \in {"close", "apply_settings"} THEN c2
                  ELSE Append(c2, Call("open", "", 0, "settings_finish", reconf # "open"))
            d1 == IF ~reconfigure \/ reconf = "close" THEN d0
                  ELSE [d0 EXCEPT !.open = (reconf = "ok")]
            c4 == IF ~MustDropNetwork(updater) THEN c3
                  ELSE Append(c3, Call(IF updater.is_local THEN "network_clear"
                                       ELSE "network_remove_device",
                                       "", 0, "settings_finish", TRUE))
            oks == ReadDeviceInfoLoop(infos, _PARAMETER_READ_RETRIES)
            c5 == IF ~MustReadDeviceInfo(updater) THEN c4
                  ELSE AppendReadDeviceInfo(c4, oks)
        IN IF port_error # "None"
           THEN /\ device' = d0
                /\ calls' = c0
                /\ RaiseInTry(port_error, "PortSettings")
           ELSE IF reconfigure /\ reconf # "ok"
           THEN /\ device' = d1
                /\ calls' = c3
                /\ RaiseInTry("UpdateProfileException", "SerialReconfigureFailed")
           ELSE IF target = "port"
           THEN /\ device' = d1
                /\ calls' = c3
                /\ pc' = "filesystem"
                /\ UNCHANGED <<exc, first_exc>>
           ELSE IF MustReadDeviceInfo(updater) /\ oks[Len(oks)] = FALSE
           THEN /\ device' = d1
                /\ calls' = c5
                /\ RaiseInTry("UpdateProfileException", "TargetInfoUpdateFailed")
           ELSE /\ device' = d1
                /\ calls' = c5
                /\ pc' = "filesystem"
                /\ UNCHANGED <<exc, first_exc>>
    /\ UNCHANGED <<target, profile, updater, entry, archive>>

-----------------------------------------------------------------------------
(* update_profile: file system (_update_file_system) *)

\* XBeeProfile.has_local_filesystem / has_remote_filesystem / has_filesystem
has_local_filesystem(prof) == prof.filesystem_payload = "local"

has_remote_filesystem(prof) == prof.filesystem_payload = "remote"

has_filesystem(prof) == has_local_filesystem(prof) \/ has_remote_filesystem(prof)

\* which branch of _update_file_system / _legacy_update_file_system runs;
\* fs_api is the answer of check_fs_support (file system API supported)
FileSystemStrategy(prof, is_local, fs_api) ==
    IF has_local_filesystem(prof) /\ fs_api THEN "modern"
    ELSE IF is_local /\ has_local_filesystem(prof) THEN "legacy_local"
    ELSE IF ~is_local /\ has_remote_filesystem(prof) THEN "legacy_remote"
    ELSE "none"

\* a reachability check that only looks at the firmware
UnreachableByFirmwareOnly(u) == u.protocol_changed_by_fw

\* line 1810: the remote node is no longer reachable
FilesystemUnreachable(u) ==
    u.protocol_changed_by_fw \/ u.protocol_changed_by_settings

\* the manager calls of the modern and of the legacy local strategy, in order
ManagerCalls(strategy) ==
    IF strategy = "modern" THEN <<"get_file_manager", "format", "put_dir">>
    ELSE <<"connect", "format_filesystem", "put_dir">>

\* which manager call raises (0: none) and what it raises
ManagerFailures ==
    { <<0, "None">>,
      <<1, "FileSystemNotSupportedException">>,
      <<2, "FileSystemException">>,
      <<3, "FileSystemException">> }

\* the log of the manager calls up to the one that raises (fail_at: 0 = none)
RECURSIVE AppendManagerCalls(_, _, _, _)
AppendManagerCalls(c, names, i, fail_at) ==
    IF i > Len(names) \/ (fail_at # 0 /\ i > fail_at) THEN c
    ELSE AppendManagerCalls(
            Append(c, Call(names[i], "", 0, "filesystem", i # fail_at)),
            names, i + 1, fail_at)

\* a disconnect whose exceptions all reach the caller
NothingSwallowed(raised) == FALSE

\* lines 1797-1805: disconnect() in the finally clause; only an
\* InvalidOperatingModeException is swallowed
DisconnectSwallowed(raised) == raised = "InvalidOperatingModeException"

\* lines 1759-1762 and 1793-1796: how a manager exception is reported
FileSystemError(fail_type) ==
    IF fail_type = "FileSystemNotSupportedException"
    THEN "FilesystemNotSupported" ELSE "UpdateFilesystem"

\* line 1877: the hardware cannot hold a file system
FilesystemNotSupported(hw) == hw # None /\ hw \notin FilesystemSupportedHardware

\* lines 1875-1880 with _update_file_system and _legacy_update_file_system.
\* payload: the file system payload of the archive; failure: the manager call
\* that raises; put_dir is call 3, and its path argument is an asset accessor
\* that may have to extract the archive first.
UpdateFileSystem ==
    /\ pc = "filesystem"
    /\ \E payload \in FilesystemPayloads :
       \E fs_api \in IF payload = "local"
                        /\ ~FilesystemNotSupported(updater.device_hardware_version)
                     THEN BOOLEAN ELSE {FALSE} :
        LET prof0 == [profile EXCEPT !.filesystem_payload = payload]
            strategy == IF FilesystemNotSupported(updater.device_hardware_version)
                        THEN "none"
                        ELSE FileSystemStrategy(prof0, updater.is_local, fs_api)
            session == strategy \in {"modern", "legacy_local"}
        IN
       \E failure \in IF session THEN ManagerFailures ELSE {<<0, "None">>} :
       \E outcome \in IF /\ profile.profile_folder = "None"
                         /\ \/ session /\ failure[1] \in {0, 3}
                            \/ strategy = "legacy_remote" /\ ~FilesystemUnreachable(updater)
                      THEN ExtractOutcomes ELSE {"ok"} :
       \E disconnect \in IF strategy = "legacy_local"
                         THEN {"ok", "InvalidOperatingModeException", "FileSystemException"}
                         ELSE {"ok"} :
       \E ota_ok \in IF strategy = "legacy_remote" /\ ~FilesystemUnreachable(updater)
                        /\ ~UncompressRaises(profile, outcome)
                     THEN BOOLEAN ELSE {TRUE} :
        LET fail_at == failure[1]
            fail_type == failure[2]
            extract_raises == UncompressRaises(prof0, outcome)
            c0 == AppendManagerCalls(calls, SubSeq(ManagerCalls(strategy), 1, 2), 1,
                                     IF fail_at \in {1, 2} THEN fail_at ELSE 0)
            c1 == IF fail_at \in {1, 2} THEN c0
                  ELSE WithUncompress(c0, prof0, outcome, "filesystem")
            c2 == IF fail_at \in {1, 2} \/ extract_raises THEN c1
                  ELSE Append(c1, Call("put_dir", "", 0, "filesystem", fail_at # 3))
            c3 == IF strategy = "legacy_local"
                  THEN Append(c2, Call("disconnect",
                                       IF disconnect = "ok" THEN "" ELSE disconnect,
                                       0, "filesystem", disconnect = "ok"))
                  ELSE c2
            reached_path == fail_at \notin {1, 2}
            \* what the try block of the strategy raises
            inner == IF fail_at \in {1, 2}
                     THEN Raise("UpdateProfileException", FileSystemError(fail_type))
                     ELSE IF extract_raises
                     THEN Raise("ReadProfileException", "Uncompress")
                     ELSE IF fail_at = 3
                     THEN Raise("UpdateProfileException", FileSystemError(fail_type))
                     ELSE NoException
            \* what disconnect() raises replaces the exception in flight
            final == IF /\ strategy = "legacy_local"
                        /\ disconnect # "ok"
                        /\ ~DisconnectSwallowed(disconnect)
                     THEN Raise(disconnect, "Disconnect")
                     ELSE inner
        IN IF ~has_filesystem(prof0)
           THEN /\ pc' = "finally"
                /\ profile' = prof0
                /\ UNCHANGED <<calls, exc, first_exc>>
           ELSE IF FilesystemNotSupported(updater.device_hardware_version)
           THEN /\ RaiseInTry("UpdateProfileException", "FilesystemNotSupported")
                /\ profile' = prof0
                /\ UNCHANGED calls
           ELSE IF strategy = "none"
           THEN /\ pc' = "finally"
                /\ profile' = prof0
                /\ UNCHANGED <<calls, exc, first_exc>>
           ELSE IF strategy = "legacy_remote"
           THEN IF FilesystemUnreachable(updater)
                THEN /\ RaiseInTry("UpdateProfileException", "FilesystemUnreachable")
                     /\ profile' = prof0
                     /\ UNCHANGED calls
                ELSE /\ profile' = Uncompressed(prof0, outcome)
                     /\ IF extract_raises
                        THEN /\ calls' = WithUncompress(calls, prof0, outcome, "filesystem")
                             /\ RaiseInTry("ReadProfileException", "Uncompress")
                        ELSE /\ calls' = Append(
                                    WithUncompress(calls, prof0, outcome, "filesystem"),
                                    Call("update_filesystem_image", "", 0, "filesystem", ota_ok))
                             /\ IF ota_ok
                                THEN pc' = "finally" /\ UNCHANGED <<exc, first_exc>>
                                ELSE RaiseInTry("UpdateProfileException", "UpdateFilesystem")
           ELSE \* modern or legacy local: a manager session
                /\ profile' = IF reached_path THEN Uncompressed(prof0, outcome) ELSE prof0
                /\ calls' = c3
                /\ IF final = NoException
                   THEN pc' = "finally" /\ UNCHANGED <<exc, first_exc>>
                   ELSE /\ exc' = final
                        /\ first_exc' = IF inner # NoException THEN inner ELSE final
                        /\ pc' = "finally"
    /\ UNCHANGED <<target, device, updater, entry, archive>>

-----------------------------------------------------------------------------
(* update_profile: the finally block *)

\* truth value of self._xpro_ap: None and an empty byte array are false
Truthy(bytes) == bytes # NoneBytes /\ Len(bytes) > 0

\* lines 1884-1887: the operating mode is applied at the end
MustApplyOperatingMode(u, d) ==
    /\ u.is_local
    /\ Truthy(u.xpro_ap)
    /\ u.xpro_ap[1] # d.operating_mode
    /\ u.xpro_ap[1] \in {API_MODE, ESCAPED_API_MODE}

\* lines 1898-1899: the synchronous operations timeout is set back
RestoreTimeout(d, old_sync_ops_timeout) ==
    IF old_sync_ops_timeout # None
    THEN [d EXCEPT !.sync_ops_timeout = old_sync_ops_timeout]
    ELSE d

\* lines 1901-1905: what is done to bring the connection back to where it was
RestoreConnection(u, d) ==
    IF u.is_local /\ u.xbee_device = "device"
    THEN IF u.was_connected /\ ~d.open THEN "open"
         ELSE IF ~u.was_connected /\ d.open THEN "close"
         ELSE "none"
    ELSE "none"

\* an exception raised inside the finally block replaces the one in flight
\* and ends the call at once
RaiseInFinally(type, msg) ==
    /\ exc' = Raise(type, msg)
    /\ first_exc' = IF first_exc = NoException THEN Raise(type, msg) ELSE first_exc
    /\ pc' = "done"

\* lines 1881-1905
Cleanup ==
    /\ pc = "finally"
    /\ \E ap \in IF MustApplyOperatingMode(updater, device)
                  THEN ResponseScripts ELSE {Answers[1]} :
       \E wr \in IF MustApplyOperatingMode(updater, device)
                      /\ _set_parameter_with_retries(ap, _PARAMETER_WRITE_RETRIES) = "None"
                  THEN ResponseScripts ELSE {Answers[1]} :
       \E open_ok \in IF RestoreConnection(updater, device) = "open"
                       THEN BOOLEAN ELSE {TRUE} :
        LET apply_mode == MustApplyOperatingMode(updater, device)
            ap_raised == _set_parameter_with_retries(ap, _PARAMETER_WRITE_RETRIES)
            wr_raised == _set_parameter_with_retries(wr, _PARAMETER_WRITE_RETRIES)
            orig_ac_value == device.apply_changes
            c0 == Append(calls, Call("enable_apply_changes", "", 1, "finally", TRUE))
            c1 == Append(c0, Call("set_parameter", "AP", updater.xpro_ap[1], "finally",
                                  ap_raised = "None"))
            c2 == Append(c1, Call("set_parameter", "WR", 0, "finally", wr_raised = "None"))
            c3 == Append(c2, Call("enable_apply_changes", "",
                                  IF orig_ac_value THEN 1 ELSE 0, "finally", TRUE))
            c4 == IF apply_mode THEN c3 ELSE calls
            d4 == device
            d5 == RestoreTimeout(d4, updater.old_sync_ops_timeout)
            c5 == IF d5 # d4 \/ updater.old_sync_ops_timeout # None
                  THEN Append(c4, Call("set_sync_ops_timeout", "",
                                       updater.old_sync_ops_timeout, "finally", TRUE))
                  ELSE c4
            todo == RestoreConnection(updater, d5)
        IN IF apply_mode /\ ap_raised # "None"
           THEN /\ device' = [device EXCEPT !.apply_changes = TRUE]
                /\ calls' = c1
                /\ RaiseInFinally(ap_raised, "SetParameter")
           ELSE IF apply_mode /\ wr_raised # "None"
           THEN /\ device' = [device EXCEPT !.apply_changes = TRUE]
                /\ calls' = c2
                /\ RaiseInFinally(wr_raised, "SetParameter")
           ELSE IF todo = "open" /\ ~open_ok
           THEN /\ device' = d5
                /\ calls' = Append(c5, Call("open", "", 0, "finally", FALSE))
                /\ RaiseInFinally("XBeeException", "OpenDevice")
           ELSE /\ device' = IF todo = "none" THEN d5
                             ELSE [d5 EXCEPT !.open = (todo = "open")]
                /\ calls' = IF todo = "none" THEN c5
                            ELSE Append(c5, Call(todo, "", 0, "finally", TRUE))
                /\ pc' = "done"
                /\ UNCHANGED <<exc, first_exc>>
    /\ UNCHANGED <<target, profile, updater, entry, archive>>

-----------------------------------------------------------------------------
(* Specification *)

Next ==
    \/ ApplyXBeeProfile
    \/ ReadDeviceParametersLocal
    \/ ReadDeviceParametersRemote
    \/ SerialPortGiven
    \/ UpdateFirmware
    \/ RecoveryOpen
    \/ SettingsBegin
    \/ SettingsLoop
    \/ SettingsCommit
    \/ SettingsFinish
    \/ UpdateFileSystem
    \/ Cleanup

Spec == Init /\ [][Next]_vars

-----------------------------------------------------------------------------
(* A profile of more than a hundred settings *)

\* the commands of a profile whose settings outnumber the percentages
LongProfileNames ==
    << "C0", "C1", "C2", "C3", "C4", "C5", "C6", "C7", "C8", "C9",
       "D0", "D1", "D2", "D3", "D4", "D5", "D6", "D7", "D8", "D9",
       "E0", "E1", "E2", "E3", "E4", "E5", "E6", "E7", "E8", "E9",
       "F0", "F1", "F2", "F3", "F4", "F5", "F6", "F7", "F8", "F9",
       "G0", "G1", "G2", "G3", "G4", "G5", "G6", "G7", "G8", "G9",
       "H0", "H1", "H2", "H3", "H4", "H5", "H6", "H7", "H8", "H9",
       "J0", "J1", "J2", "J3", "J4", "J5", "J6", "J7", "J8", "J9",
       "K0", "K1", "K2", "K3", "K4", "K5", "K6", "K7", "K8", "K9",
       "L0", "L1", "L2", "L3", "L4", "L5", "L6", "L7", "L8", "L9",
       "M0", "M1", "M2", "M3", "M4", "M5", "M6", "M7", "M8", "M9",
       "Q0", "Q1", "Q2", "Q3", "Q4", "Q5", "Q6", "Q7", "Q8", "Q9" >>

LongSettingList ==
    [i \in 1..Len(LongProfileNames) |-> [name |-> LongProfileNames[i], value |-> 1]]

\* profiles that declare LongSettingList, apply to the firmware the device
\* runs and never flash
LongProfiles(t) ==
    [ flash_firmware_option : {DONT_FLASH},
      reset_settings : BOOLEAN,
      firmware_version : DeviceFirmwareVersions,
      hardware_version : FirmwareSupportedHardware,
      profile_settings : {LongSettingList},
      filesystem_payload : {"unread"},
      has_local_firmware : {TRUE},
      protocol : {"ZIGBEE"},
      profile_folder : {"None"} ]

\* the remote device handles a long profile is applied to
LongProfileHandles(t) ==
    [ open : {TRUE},
      sync_ops_timeout : {4},
      apply_changes : {TRUE},
      operating_mode : {API_MODE},
      firmware_version : DeviceFirmwareVersions,
      hardware_version : FirmwareSupportedHardware,
      supports_apply_profile : {FALSE} ]

\* apply_xbee_profile of a long profile to a remote device
ApplyLongProfile ==
    apply_xbee_profile({"remote"}, [t \in {"remote"} |-> LongProfiles(t)],
                       [t \in {"remote"} |-> LongProfileHandles(t)])

NextLong ==
    \/ Next
    \/ ApplyLongProfile

SpecLong == Init /\ [][NextLong]_vars

-----------------------------------------------------------------------------
(* XBeeProfile: parsing of the settings of an archive *)

NO_TYPE == "none"
NO_FORMAT == "none"

\* the <setting command=...> elements profile.xml may hold, in document order
AtSettingPool ==
    << [command |-> "NI", text |-> 1],
       [command |-> "ID", text |-> 1],
       [command |-> "ID", text |-> 2] >>

AtSettingLists ==
    UNION { [1..n -> {AtSettingPool[i] : i \in DOMAIN AtSettingPool}] :
            n \in 0..MaxSettings }

\* the <setting> elements of the firmware description: a command is listed
\* at most once; control_type and format are the texts of the child elements,
\* "absent" for a missing child
FirmwareSettingElements ==
    [ command : {"NI", "ID"},
      control_type : {"absent", "text"},
      format : {"absent", "HEX"} ]

FirmwareSettingCatalogs ==
    { c \in SUBSET FirmwareSettingElements :
        \A e1, e2 \in c : e1.command = e2.command => e1 = e2 }

Archives ==
    [ at_settings : AtSettingLists,
      raw_settings : {<<>>},
      firmware_settings : FirmwareSettingCatalogs ]

\* d[key] = item on an insertion ordered dict held as a sequence of items
DictSet(d, key, item) ==
    IF \E i \in DOMAIN d : d[i].name = key
    THEN [i \in DOMAIN d |-> IF d[i].name = key THEN item ELSE d[i]]
    ELSE Append(d, item)

\* lines 819-824: self._raw_settings[setting_name] = setting_value
RECURSIVE _parse_xml_profile_file(_, _)
_parse_xml_profile_file(raw, elements) ==
    IF elements = <<>> THEN raw
    ELSE _parse_xml_profile_file(
            DictSet(raw, Head(elements).command,
                    [name |-> Head(elements).command, value |-> Head(elements).text]),
            Tail(elements))

\* lines 1011-1021: the XBeeProfileSetting built for a raw setting from the
\* element of the firmware description that lists its command
XBeeProfileSetting(raw_setting, element) ==
    [ name |-> raw_setting.name,
      type |-> IF element.control_type = "absent" THEN NO_TYPE
               ELSE element.control_type,
      format |-> IF element.format = "absent" THEN NO_FORMAT
                 ELSE element.format,
      value |-> raw_setting.value ]

\* lines 1008-1026: a setting is built inside the test of line 1010 only
RECURSIVE _parse_xml_firmware_file(_, _, _)
_parse_xml_firmware_file(settings, raw, catalog) ==
    IF raw = <<>> THEN settings
    ELSE LET listed == { e \in catalog : e.command = Head(raw).name }
         IN _parse_xml_firmware_file(
               IF listed = {} THEN settings
               ELSE DictSet(settings, Head(raw).name,
                            XBeeProfileSetting(Head(raw), CHOOSE e \in listed : TRUE)),
               Tail(raw), catalog)

InitParse ==
    /\ pc = "parse_profile"
    /\ archive \in Archives
    /\ target = "None"
    /\ profile = NoProfile
    /\ device = NoDevice
    /\ updater = NoUpdater
    /\ exc = NoException
    /\ first_exc = NoException
    /\ entry = NoDevice
    /\ calls = <<>>

\* XBeeProfile._parse_xml_profile_file, the AT settings
ParseXmlProfileFile ==
    /\ pc = "parse_profile"
    /\ archive' = [archive EXCEPT
                     !.raw_settings = _parse_xml_profile_file(<<>>, archive.at_settings)]
    /\ pc' = "parse_firmware"
    /\ UNCHANGED <<target, profile, device, updater, exc, first_exc, entry, calls>>

\* XBeeProfile._parse_xml_firmware_file, the AT settings
ParseXmlFirmwareFile ==
    /\ pc = "parse_firmware"
    /\ profile' = [profile EXCEPT
                     !.profile_settings =
                        _parse_xml_firmware_file(<<>>, archive.raw_settings,
                                                 archive.firmware_settings)]
    /\ pc' = "parsed"
    /\ UNCHANGED <<target, archive, device, updater, exc, first_exc, entry, calls>>

NextParse ==
    \/ ParseXmlProfileFile
    \/ ParseXmlFirmwareFile

SpecParse == InitParse /\ [][NextParse]_vars

-----------------------------------------------------------------------------
(* XBeeProfile: the asset accessors, the default values and the release *)

\* how many accessor and default value calls are made on one profile object
MaxAccesses == 3

\* the properties that extract the archive when it was not yet
Accessors ==
    {"firmware_description_file", "file_system_path", "remote_file_system_image",
     "bootloader_file"}

\* the names hasattr() finds on an XBeeProfile: the fields __init__ assigns
\* and the members of the class
XBeeProfileAttributes ==
    { "_profile_file", "_profile_folder", "_profile_xml_file", "_firmware_xml_file",
      "_bootloader_file", "_file_system_path", "_remote_file_system_image",
      "profile_file", "version", "flash_firmware_option", "description",
      "reset_settings", "has_local_filesystem", "has_remote_filesystem",
      "has_filesystem", "has_local_firmware_files", "has_remote_firmware_files",
      "has_firmware_files", "profile_settings", "firmware_version",
      "hardware_version", "compatibility_number", "region_lock",
      "firmware_description_file", "file_system_path", "remote_file_system_image",
      "bootloader_file", "protocol", "get_setting_default_value" }

hasattr(name) == name \in XBeeProfileAttributes

\* a path is the sequence of the parts os.path.join put together; <<>> is None
NonePath == <<>>

\* the XBeeProfile object once __init__ returned, for an archive with the
\* given file system payload
ParsedProfile(payload) ==
    [ profile_folder |-> "None",
      firmware_xml_file |-> <<"radio_fw/fw.xml">>,
      file_system_path |-> NonePath,
      remote_file_system_image |-> NonePath,
      bootloader_file |-> NonePath,
      filesystem_payload |-> payload ]

\* the disk: the archive holds a bootloader or not; the scratch directory is
\* there or not, with the extracted files or without
Disks ==
    [ has_bootloader : BOOLEAN, scratch_dir : {FALSE}, extracted : {FALSE} ]

\* lines 850-871: the paths _uncompress_profile fills once the files are out
FilledPaths(prof, disk) ==
    [ prof EXCEPT
        !.firmware_xml_file = <<"tmp">> \o prof.firmware_xml_file,
        !.file_system_path = IF has_local_filesystem(prof)
                             THEN <<"tmp", "filesystem">> ELSE @,
        !.remote_file_system_image = IF has_remote_filesystem(prof)
                                     THEN <<"tmp", "remote_filesystem", "image.ota">>
                                     ELSE @,
        !.bootloader_file = IF disk.has_bootloader
                            THEN <<"tmp", "radio_fw", "xb3-boot.gbl">> ELSE @ ]

\* what an accessor returns
AccessorValue(prof, accessor) ==
    CASE accessor = "firmware_description_file" -> prof.firmware_xml_file
      [] accessor = "file_system_path" -> prof.file_system_path
      [] accessor = "remote_file_system_image" -> prof.remote_file_system_image
      [] accessor = "bootloader_file" -> prof.bootloader_file

InitArchive ==
    /\ pc = "parsed"
    /\ profile \in { ParsedProfile(payload) : payload \in FilesystemPayloads }
    /\ archive \in Disks
    /\ target = "None"
    /\ device = NoDevice
    /\ updater = NoUpdater
    /\ exc = NoException
    /\ first_exc = NoException
    /\ entry = NoDevice
    /\ calls = <<>>

\* lines 1252-1302: one of the four accessors, with _uncompress_profile when
\* the folder is None.  cmd: the path returned; val: 1 when extractall was
\* called
Access ==
    /\ pc = "parsed"
    /\ Len(calls) < MaxAccesses
    /\ \E accessor \in Accessors :
       \E outcome \in IF profile.profile_folder = "None"
                      THEN ExtractOutcomes ELSE {"ok"} :
        LET extracting == profile.profile_folder = "None"
            raises == UncompressRaises(profile, outcome)
            prof1 == Uncompressed(profile, outcome)
            prof2 == IF extracting /\ outcome = "ok"
                     THEN FilledPaths(prof1, archive) ELSE prof1
            extractall == extracting /\ outcome # "mkdtemp_failed"
        IN /\ profile' = prof2
           /\ archive' = [archive EXCEPT
                            !.scratch_dir = @ \/ extractall,
                            !.extracted = @ \/ (extracting /\ outcome = "ok")]
           /\ calls' = Append(calls,
                         Call(accessor,
                              IF raises THEN NonePath ELSE AccessorValue(prof2, accessor),
                              IF extractall THEN 1 ELSE 0, "access", ~raises))
           /\ exc' = IF raises THEN Raise("ReadProfileException", "Uncompress")
                     ELSE NoException
    /\ UNCHANGED <<pc, target, device, updater, first_exc, entry>>

\* the default values of the firmware description: BD has one, NB is listed
\* without a default_value element, any other command is not listed
DefaultValueOf(setting_name) ==
    IF setting_name = "BD" THEN 3 ELSE None

\* what opening and parsing the firmware description can raise: from the
\* archive before it is extracted (zipfile.ZipFile, zip_file.open), from the
\* extracted file after
OpenOutcomes(prof, disk) ==
    IF prof.profile_folder = "None"
    THEN {"ok", "ParseError", "BadZipFile", "OSError"}
    ELSE IF disk.extracted THEN {"ok", "ParseError", "OSError"}
    ELSE {"OSError"}

\* line 1057: except (ParseError, zipfile.BadZipFile, zipfile.LargeZipFile)
DefaultValueCaught(raised) == raised \in {"ParseError", "BadZipFile", "LargeZipFile"}

\* lines 1030-1063: get_setting_default_value
GetSettingDefaultValue ==
    /\ pc = "parsed"
    /\ Len(calls) < MaxAccesses
    /\ \E setting_name \in {"BD", "NB", "ZZ"} :
       \E outcome \in OpenOutcomes(profile, archive) :
        LET raises == outcome # "ok" /\ ~DefaultValueCaught(outcome)
            value == IF outcome = "ok" THEN DefaultValueOf(setting_name) ELSE None
        IN /\ calls' = Append(calls, Call("get_setting_default_value", setting_name,
                                          value, "lookup", ~raises))
           /\ exc' = IF raises THEN Raise(outcome, "OpenFirmwareDescription")
                     ELSE NoException
    /\ UNCHANGED <<pc, target, profile, device, updater, first_exc, entry, archive>>

\* lines 765-770: __del__ returns at once unless the object has an attribute
\* named profile_folder; else it removes the folder when it is a directory
DelRemovesFolder(prof, disk) ==
    /\ hasattr("profile_folder")
    /\ prof.profile_folder # "None"
    /\ disk.scratch_dir

\* XBeeProfile.__del__: the object is released
Release ==
    /\ pc = "parsed"
    /\ pc' = "released"
    /\ archive' = IF DelRemovesFolder(profile, archive)
                  THEN [archive EXCEPT !.scratch_dir = FALSE, !.extracted = FALSE]
                  ELSE archive
    /\ UNCHANGED <<target, profile, device, updater, exc, first_exc, entry, calls>>

NextArchive ==
    \/ Access
    \/ GetSettingDefaultValue
    \/ Release

SpecArchive == InitArchive /\ [][NextArchive]_vars

-----------------------------------------------------------------------------
(* XBeeProfile._initialize_profile: the integrity of the archive and the
   region lock *)

\* the members an archive is made of
ArchiveMembers ==
    { "profile.xml", "old/profile.xml", "radio_fw/fw.xml", "radio_fw/fw.ebin",
      "filesystem/main.py", "remote_filesystem/image.ota" }

\* f.startswith(_FIRMWARE_FOLDER_NAME)
StartsWithFirmwareFolder(f) == f \in {"radio_fw/fw.xml", "radio_fw/fw.ebin"}

\* fnmatch of f against _FIRMWARE_FOLDER_NAME + _WILDCARD_XML
MatchesFirmwareXml(f) == f \in {"radio_fw/fw.xml"}

HexDigits ==
    << "0", "1", "2", "3", "4", "5", "6", "7", "8", "9", "A", "B", "C", "D", "E", "F" >>

\* utils.int_to_bytes(number, num_bytes): the bytes of the number, most
\* significant first, padded on the left up to num_bytes
RECURSIVE int_to_bytes(_, _)
int_to_bytes(number, num_bytes) ==
    IF number < 256 /\ num_bytes <= 1 THEN << number >>
    ELSE Append(int_to_bytes(number \div 256, num_bytes - 1), number % 256)

\* utils.hex_to_string(bytes, pretty=False): two hexadecimal digits a byte
RECURSIVE hex_to_string(_)
hex_to_string(bytes) ==
    IF bytes = << >> THEN << >>
    ELSE << HexDigits[(Head(bytes) \div 16) + 1], HexDigits[(Head(bytes) % 16) + 1] >>
         \o hex_to_string(Tail(bytes))

\* int(text, base=0) of a decimal digit
IntOfCharacter(character) == (CHOOSE d \in 1..10 : HexDigits[d] = character) - 1

\* lines 984-986: fw_version_str
FirmwareVersionString(firmware_version) ==
    hex_to_string(int_to_bytes(firmware_version, 2))

\* line 991: whether int(fw_version_str[1:2], base=0) raises: ValueError
\* unless the character is a decimal digit
RegionLockRaises(region_lock, firmware_version) ==
    /\ region_lock = 99
    /\ Len(FirmwareVersionString(firmware_version)) = 4
    /\ ~ \E d \in 1..10 : HexDigits[d] = FirmwareVersionString(firmware_version)[2]

\* lines 976-991: the region lock of the profile
RegionLock(region_lock, firmware_version) ==
    IF region_lock # 99 THEN region_lock
    ELSE IF Len(FirmwareVersionString(firmware_version)) # 4 THEN 0
    ELSE IntOfCharacter(FirmwareVersionString(firmware_version)[2])

\* an integrity check that looks for the firmware description first
FirmwareXmlCheckedFirst(files) ==
    IF ~ \E f \in files : MatchesFirmwareXml(f) THEN "_ERROR_FIRMWARE_XML_NOT_EXIST"
    ELSE IF ~ \E f \in files : StartsWithFirmwareFolder(f)
    THEN "_ERROR_FIRMWARE_FOLDER_NOT_EXIST"
    ELSE IF "profile.xml" \notin files THEN "_ERROR_PROFILE_XML_NOT_EXIST"
    ELSE "None"

\* lines 917-924: the message _check_profile_integrity raises with
_check_profile_integrity(files) ==
    IF "profile.xml" \notin files THEN "_ERROR_PROFILE_XML_NOT_EXIST"
    ELSE IF ~ \E f \in files : StartsWithFirmwareFolder(f)
    THEN "_ERROR_FIRMWARE_FOLDER_NOT_EXIST"
    ELSE IF ~ \E f \in files : MatchesFirmwareXml(f)
    THEN "_ERROR_FIRMWARE_XML_NOT_EXIST"
    ELSE "None"

\* lines 900-901: whatever is raised while the archive is read is raised
\* again as ReadProfileException(_ERROR_PROFILE_READ % str(exc))
ProfileReadError(message) ==
    Raise("ReadProfileException", << "_ERROR_PROFILE_READ", message >>)

InitOpen ==
    /\ pc = "check_integrity"
    /\ archive \in
         [ filelist : SUBSET ArchiveMembers,
           \* 0x0034 .. 0x1F34 and 0x12345
           firmware_version :
              { 4096 * a + 256 * b + 52 : a \in 0..1, b \in 0..15 } \cup { 74565 },
           \* the region lock element: absent, all regions, unknown region
           region_lock : { None, 0, 99 } ]
    /\ profile = [ filesystem_payload |-> "none", firmware_version |-> None,
                   region_lock |-> None ]
    /\ target = "None"
    /\ device = NoDevice
    /\ updater = NoUpdater
    /\ exc = NoException
    /\ first_exc = NoException
    /\ entry = NoDevice
    /\ calls = <<>>

\* _initialize_profile line 891: _check_profile_integrity
CheckProfileIntegrity ==
    /\ pc = "check_integrity"
    /\ LET message == _check_profile_integrity(archive.filelist)
       IN IF message # "None"
          THEN /\ pc' = "raised"
               /\ exc' = ProfileReadError(message)
               /\ UNCHANGED profile
          ELSE /\ pc' = "parse_profile_xml"
               /\ profile' =
                    [profile EXCEPT
                       !.filesystem_payload =
                          IF "filesystem/main.py" \in archive.filelist THEN "local"
                          ELSE IF "remote_filesystem/image.ota" \in archive.filelist
                          THEN "remote" ELSE "none"]
               /\ UNCHANGED exc
    /\ UNCHANGED <<target, device, updater, first_exc, entry, calls, archive>>

\* _initialize_profile line 892: the profile document is parsed
OpenProfileXml ==
    /\ pc = "parse_profile_xml"
    /\ pc' = "parse_firmware_xml"
    /\ calls' = Append(calls, Call("_parse_xml_profile_file", "", 0, "open", TRUE))
    /\ UNCHANGED <<target, profile, device, updater, exc, first_exc, entry, archive>>

\* _initialize_profile line 893: the firmware description is parsed, the
\* firmware version and the region lock
OpenFirmwareXml ==
    /\ pc = "parse_firmware_xml"
    /\ LET raises == RegionLockRaises(archive.region_lock, archive.firmware_version)
           region == IF raises THEN archive.region_lock
                     ELSE RegionLock(archive.region_lock, archive.firmware_version)
       IN /\ pc' = IF raises THEN "raised" ELSE "parsed"
          /\ exc' = IF raises THEN ProfileReadError("ValueError") ELSE exc
          /\ profile' = [profile EXCEPT
                           !.firmware_version = archive.firmware_version,
                           !.region_lock = region]
          /\ calls' = Append(calls,
                        Call("_parse_xml_firmware_file", "", 0, "open", ~raises))
    /\ UNCHANGED <<target, device, updater, first_exc, entry, archive>>

NextOpen ==
    \/ CheckProfileIntegrity
    \/ OpenProfileXml
    \/ OpenFirmwareXml

SpecOpen == InitOpen /\ [][NextOpen]_vars

-----------------------------------------------------------------------------
(* XBeeProfileSetting._setting_value_to_bytearray *)

\* a text is the sequence of its characters.  The values of the settings:
\* "1A2B", "07", "ABC", "GO", "1.2.30", "1.2.300", "FE::1", "FE01"
SettingValues ==
    { << "1", "A", "2", "B" >>, << "0", "7" >>, << "A", "B", "C" >>, << "G", "O" >>,
      << "1", ".", "2", ".", "3", "0" >>, << "1", ".", "2", ".", "3", "0", "0" >>,
      << "F", "E", ":", ":", "1" >>, << "F", "E", "0", "1" >> }

\* what the conversion gives: a bytearray, the str it was given, or ValueError
Bytearray(bytes) == [kind |-> "bytearray", value |-> bytes]
Str(text) == [kind |-> "str", value |-> text]
ValueError == [kind |-> "ValueError", value |-> << >>]

\* the code point of a character
Ord(character) ==
    IF \E d \in 1..10 : HexDigits[d] = character
    THEN 47 + (CHOOSE d \in 1..10 : HexDigits[d] = character)
    ELSE IF \E d \in 11..16 : HexDigits[d] = character
    THEN 54 + (CHOOSE d \in 11..16 : HexDigits[d] = character)
    ELSE CASE character = "." -> 46
           [] character = ":" -> 58
           [] character = "G" -> 71
           [] character = "O" -> 79

\* int(text, base) of a text without sign, prefix or blanks: -1 stands for
\* the ValueError of an empty text or of a character that is no digit
RECURSIVE int(_, _)
int(text, base) ==
    IF text = << >> \/ \E i \in DOMAIN text :
                          ~ \E d \in 1..base : HexDigits[d] = text[i]
    THEN -1
    ELSE LET last == (CHOOSE d \in 1..base : HexDigits[d] = text[Len(text)]) - 1
         IN IF Len(text) = 1 THEN last
            ELSE base * int(SubSeq(text, 1, Len(text) - 1), base) + last

\* utils.hex_string_to_bytes(hex_string): int_to_bytes(int(hex_string, 16))
hex_string_to_bytes(hex_string) ==
    IF int(hex_string, 16) = -1 THEN ValueError
    ELSE Bytearray(int_to_bytes(int(hex_string, 16), 1))

\* bytearray(text, 'utf8') of a text of ASCII characters
Utf8Bytes(text) == Bytearray([i \in DOMAIN text |-> Ord(text[i])])

\* text.split(separator)
RECURSIVE split(_, _)
split(text, separator) ==
    IF \A i \in DOMAIN text : text[i] # separator THEN << text >>
    ELSE LET first == CHOOSE i \in DOMAIN text :
                         /\ text[i] = separator
                         /\ \A j \in 1..(i - 1) : text[j] # separator
         IN << SubSeq(text, 1, first - 1) >>
            \o split(SubSeq(text, first + 1, Len(text)), separator)

\* lines 638-639: bytearray(list(map(int, value.split(".")))), ValueError
\* for a token that is no number and for a number that is no byte
Ipv4Bytes(value) ==
    LET octets == [i \in DOMAIN split(value, ".") |-> int(split(value, ".")[i], 10)]
    IN IF \E i \in DOMAIN octets : octets[i] = -1 \/ octets[i] > 255
       THEN ValueError
       ELSE Bytearray(octets)

\* a conversion that never sees the separator of IPv6
SeparatorNeverSeen(value) == FALSE

\* line 641: _IPV6_SEPARATOR in self._value
HasIpv6Separator(value) == \E i \in DOMAIN value : value[i] = ":"

\* lines 623-646: the type "None" and the format "None" are what
\* XBeeSettingType.get and XBeeSettingFormat.get give for a text they do
\* not know
_setting_value_to_bytearray(type, format, value) ==
    IF type \in {"combo", "number"} THEN hex_string_to_bytes(value)
    ELSE IF type = "text" /\ format \in {"ASCII", "PHONE"} THEN Utf8Bytes(value)
    ELSE IF type = "text" /\ format \in {"HEX", NO_FORMAT}
    THEN hex_string_to_bytes(value)
    ELSE IF type = "text" /\ format = "IPV4" THEN Ipv4Bytes(value)
    ELSE IF type = "text" /\ format = "IPV6" /\ HasIpv6Separator(value)
    THEN Utf8Bytes(value)
    ELSE IF type # "text" /\ type \in {"button", NO_TYPE} THEN Bytearray(<< >>)
    ELSE Str(value)

\* XBeeProfileSetting.__init__ up to line 620: the setting with its type,
\* format and value
InitCodec ==
    /\ pc = "setting"
    /\ profile \in [ type : {"number", "combo", "text", "button", NO_TYPE, "None"},
                     format : {"HEX", "ASCII", "IPV4", "IPV6", "PHONE", NO_FORMAT,
                               "None"},
                     value : SettingValues,
                     bytearray_value : {Str(<< >>)} ]
    /\ archive = NoArchive
    /\ target = "None"
    /\ device = NoDevice
    /\ updater = NoUpdater
    /\ exc = NoException
    /\ first_exc = NoException
    /\ entry = NoDevice
    /\ calls = <<>>

\* line 621: self._bytearray_value = self._setting_value_to_bytearray()
SettingValueToBytearray ==
    /\ pc = "setting"
    /\ pc' = "encoded"
    /\ profile' = [profile EXCEPT
                     !.bytearray_value =
                        _setting_value_to_bytearray(profile.type, profile.format,
                                                    profile.value)]
    /\ UNCHANGED <<target, device, updater, exc, first_exc, entry, calls, archive>>

SpecCodec == InitCodec /\ [][SettingValueToBytearray]_vars

-----------------------------------------------------------------------------
(* The parameter operations, attempt by attempt *)

\* what the device answers to one get_parameter / set_parameter:
\* XBeeException stands for the XBeeException subclasses other than
\* TimeoutException and ATCommandException
AttemptAnswers == {"ok", "TimeoutException", "ATCommandException", "XBeeException"}

\* a read that is repeated after every failure
AnyReadFailureRetried(answer) == answer # "ok"

\* line 1434: the except clause of _read_parameter_with_retries
ReadRetried(answer) == answer = "TimeoutException"

\* a write that is repeated after every failure
AnyWriteFailureRetried(answer) == answer # "ok"

\* line 1459: the except clause of _set_parameter_with_retries
WriteRetried(answer) == answer \in {"TimeoutException", "ATCommandException"}

\* an apply changes (AC) step that gives up after its first write
GivesUpAtOnce(ac_retries) == TRUE

\* lines 1688-1689: if not retries: raise exc
ApplyChangesGivesUp(ac_retries) == ac_retries = 0

\* the helper is entered with its retries argument; for the apply changes
\* step, the loop of lines 1680-1690 is entered with its own retries
InitRetries ==
    /\ pc \in {"get_parameter", "set_parameter", "apply_changes"}
    /\ updater = [NoUpdater EXCEPT
                    !.retries = IF pc = "get_parameter" THEN _PARAMETER_READ_RETRIES
                                ELSE _PARAMETER_WRITE_RETRIES,
                    !.ac_retries = IF pc = "apply_changes" THEN _PARAMETER_READ_RETRIES
                                   ELSE 0]
    /\ target = "None"
    /\ profile = NoProfile
    /\ device = NoDevice
    /\ exc = NoException
    /\ first_exc = NoException
    /\ entry = NoDevice
    /\ calls = <<>>
    /\ archive = NoArchive

\* lines 1431-1438: one pass of the loop of _read_parameter_with_retries, and
\* the raise that follows the loop
ReadParameterAttempt ==
    /\ pc = "get_parameter"
    /\ \E answer \in AttemptAnswers :
        /\ calls' = Append(calls, Call("device.get_parameter", "VR", 1, "attempt",
                                       answer = "ok"))
        /\ IF answer = "ok"
           THEN /\ pc' = "returned"
                /\ UNCHANGED <<updater, exc>>
           ELSE IF ReadRetried(answer)
           THEN /\ updater' = [updater EXCEPT !.retries = @ - 1]
                /\ IF updater.retries - 1 > 0
                   THEN pc' = pc /\ exc' = Raise(answer, "attempt")
                   ELSE pc' = "raised" /\ exc' = Raise("XBeeException", "ReadParameter")
           ELSE /\ pc' = "raised"
                /\ exc' = Raise(answer, "attempt")
                /\ UNCHANGED updater
    /\ UNCHANGED <<target, profile, device, first_exc, entry, archive>>

\* lines 1453-1465: one pass of the loop of _set_parameter_with_retries, and
\* the raise that follows the loop
SetParameterAttempt ==
    /\ pc = "set_parameter"
    /\ \E answer \in AttemptAnswers :
        /\ calls' = Append(calls, Call("device.set_parameter", "NI", 1, "attempt",
                                       answer = "ok"))
        /\ IF answer = "ok"
           THEN /\ pc' = "returned"
                /\ UNCHANGED <<updater, exc>>
           ELSE IF WriteRetried(answer)
           THEN /\ updater' = [updater EXCEPT !.retries = @ - 1]
                /\ IF updater.retries - 1 > 0
                   THEN pc' = pc /\ exc' = Raise(answer, "attempt")
                   ELSE pc' = "raised" /\ exc' = Raise("XBeeException", "SetParameter")
           ELSE /\ pc' = "raised"
                /\ exc' = Raise(answer, "attempt")
                /\ UNCHANGED updater
    /\ UNCHANGED <<target, profile, device, first_exc, entry, archive>>

\* lines 1679-1690: one attempt of the apply changes (AC) write inside the
\* loop of the apply changes step.  val is the repetition the attempt belongs
\* to; when _set_parameter_with_retries raises, the step repeats it until its
\* own retries are spent.
ApplyChangesAttempt ==
    /\ pc = "apply_changes"
    /\ \E answer \in AttemptAnswers :
        LET repetition == _PARAMETER_READ_RETRIES + 1 - updater.ac_retries
            write_raises == \/ answer # "ok" /\ ~WriteRetried(answer)
                            \/ WriteRetried(answer) /\ updater.retries - 1 = 0
        IN /\ calls' = Append(calls, Call("device.set_parameter", "AC", repetition,
                                          "attempt", answer = "ok"))
           /\ IF answer = "ok"
              THEN /\ pc' = "returned"
                   /\ UNCHANGED <<updater, exc>>
              ELSE IF ~write_raises
              THEN /\ updater' = [updater EXCEPT !.retries = @ - 1]
                   /\ exc' = Raise(answer, "attempt")
                   /\ pc' = pc
              ELSE /\ updater' = [updater EXCEPT
                                    !.retries = _PARAMETER_WRITE_RETRIES,
                                    !.ac_retries = @ - 1]
                   /\ IF ApplyChangesGivesUp(updater.ac_retries - 1)
                      THEN /\ pc' = "raised"
                           /\ exc' = Raise("UpdateProfileException", "UpdateSettings")
                      ELSE /\ pc' = pc
                           /\ exc' = Raise(IF WriteRetried(answer) THEN "XBeeException"
                                           ELSE answer, "SetParameter")
    /\ UNCHANGED <<target, profile, device, first_exc, entry, archive>>

NextRetries ==
    \/ Next
    \/ ReadParameterAttempt
    \/ SetParameterAttempt
    \/ ApplyChangesAttempt

SpecRetries == (Init \/ InitRetries) /\ [][NextRetries]_vars

-----------------------------------------------------------------------------
(* Observations on a call *)

\* update_profile was entered: an updater was built
UpdateProfileEntered == updater.timeout # None

\* update_profile has returned or raised
Exited == pc = "done" /\ UpdateProfileEntered

DeviceHandleTarget == target \in {"local", "remote"}

FlashCalls == { i \in DOMAIN calls : calls[i].op = "update_firmware" }

ParameterWrites == { i \in DOMAIN calls : calls[i].op = "set_parameter" }

FilesystemCalls ==
    { i \in DOMAIN calls :
        calls[i].op \in { "get_file_manager", "format", "put_dir", "connect",
                          "format_filesystem", "disconnect",
                          "update_filesystem_image" } }

\* the calls that operate on the device
DeviceOperations ==
    { i \in DOMAIN calls :
        calls[i].op \notin {"_uncompress_profile", "progress", "apply_profile"} }

NoFlashWriteOrFilesystem ==
    FlashCalls = {} /\ ParameterWrites = {} /\ FilesystemCalls = {}

\* the firmware version the device runs when the call begins (a recovery
\* port is taken to run version 0, line 1846)
FirmwareAtEntry == IF target = "port" THEN 0 ELSE entry.firmware_version

-----------------------------------------------------------------------------
(* Claims *)

\* C1: for a device-handle target, when update_profile exits the
\* synchronous operations timeout is the one the handle had at entry and a
\* local device is open exactly if it was open at entry.
C1_HandleRestoredOnExit ==
    Exited /\ DeviceHandleTarget
        => /\ device.sync_ops_timeout = entry.sync_ops_timeout
           /\ target = "local" => device.open = entry.open

\* C2: when the settings phase ends, by completing or by a parameter write
\* that exhausted its retries, the auto-apply flag is the one the device had
\* when the phase began.
C2_ApplyChangesRestoredAtPhaseEnd ==
    /\ updater.num_settings > 0
    /\ \/ pc = "filesystem"
       \/ pc = "finally" /\ exc.msg = "UpdateSettings"
    => device.apply_changes = updater.old_apply_settings_value

\* C3: an archive error (invalid profile, scratch directory or extraction
\* failure) is raised before any operation on the device.
C3_ArchiveErrorBeforeDeviceOperation ==
    exc.type = "ReadProfileException" \/ exc.msg = "InvalidProfile"
        => DeviceOperations = {}

\* C4: the exception that reaches the caller is the first one raised inside
\* update_profile.
C4_FirstFatalErrorReachesCaller ==
    pc = "done" /\ first_exc # NoException => exc = first_exc

\* C5: a failure of update_profile reaches the caller as an
\* UpdateProfileException.
C5_FailuresAreUpdateProfileException ==
    Exited /\ exc # NoException => exc.type = "UpdateProfileException"

\* C6: with a serial port target and a profile that includes the firmware
\* binaries, every call invokes the firmware update.
C6_RecoveryAlwaysFlashes ==
    pc = "done" /\ target = "port" /\ profile.has_local_firmware
        => FlashCalls # {}

\* the flash option asks for a flash of the device as it was at entry
FlashRequested ==
    \/ profile.flash_firmware_option = FLASH_ALWAYS
    \/ /\ profile.flash_firmware_option = FLASH_DIFFERENT
       /\ entry.firmware_version # profile.firmware_version

\* the device parameters were read and the hardware versions are equal
HardwareVerified == updater.device_hardware_version = profile.hardware_version

FirmwareFilesExtracted ==
    \A i \in DOMAIN calls :
        calls[i].op = "_uncompress_profile" /\ calls[i].site = "firmware"
            => calls[i].ok

\* C7 (as stated): for a device-handle target the firmware update is invoked
\* at most once, and it is invoked iff the option is FLASH_ALWAYS, or
\* FLASH_DIFFERENT with differing firmware versions.
C7_FlashIffRequested ==
    Exited /\ DeviceHandleTarget
        => /\ Cardinality(FlashCalls) <= 1
           /\ FlashCalls # {} <=> FlashRequested

\* C7 (amended): for a device-handle target the firmware update is invoked
\* at most once, and it is invoked iff the option asks for it, the device
\* parameters were read with equal hardware versions, the firmware update
\* supports the hardware and the firmware files could be extracted.
C7_FlashIffRequestedAndPossible ==
    Exited /\ DeviceHandleTarget
        => /\ Cardinality(FlashCalls) <= 1
           /\ FlashCalls # {} <=>
                /\ FlashRequested
                /\ HardwareVerified
                /\ entry.hardware_version \in FirmwareSupportedHardware
                /\ FirmwareFilesExtracted

C7_Witness ==
    /\ Exited /\ DeviceHandleTarget
    /\ profile.flash_firmware_option = FLASH_DIFFERENT
    /\ Cardinality(FlashCalls) = 1

C9_HardwareMismatchFailsFast ==
    /\ Exited /\ DeviceHandleTarget
    /\ entry.hardware_version # profile.hardware_version
    => /\ exc = Raise("UpdateProfileException", "HardwareIncompatible")
       /\ NoFlashWriteOrFilesystem

\* C9 (amended): the same, provided the device parameters could be read.
C9_HardwareMismatchFailsFastAfterRead ==
    /\ Exited /\ DeviceHandleTarget
    /\ entry.hardware_version # profile.hardware_version
    /\ updater.device_hardware_version # None
    => /\ exc = Raise("UpdateProfileException", "HardwareIncompatible")
       /\ NoFlashWriteOrFilesystem

C9_Witness ==
    /\ Exited /\ target = "remote"
    /\ entry.hardware_version # profile.hardware_version
    /\ updater.device_hardware_version # None
    /\ exc.msg = "HardwareIncompatible"

\* the value the profile declares for the operating mode, if any
DeclaredOperatingModes ==
    { profile.profile_settings[k].value :
        k \in { j \in DOMAIN profile.profile_settings :
                  profile.profile_settings[j].name = "AP" } }

\* C10: on a local target every write of the operating mode (AP) is either
\* the write of the device's own mode that follows the restore of defaults,
\* or the write of the declared value in the finally block, after every call
\* of the settings phase; the loop over the declared settings never writes it.
C10_OperatingModeDeferred ==
    target \in {"local", "port"} =>
        \A i \in ParameterWrites :
            calls[i].cmd = "AP" =>
                \/ /\ calls[i].site = "settings_begin"
                   /\ calls[i].val = device.operating_mode
                \/ /\ calls[i].site = "finally"
                   /\ calls[i].val \in DeclaredOperatingModes
                   /\ \A j \in DOMAIN calls :
                        PhaseOf(calls[j].site) = 3 => j < i

C10_Witness ==
    /\ target = "local"
    /\ Len(profile.profile_settings) = 2
    /\ \E i \in ParameterWrites :
         calls[i].cmd = "AP" /\ calls[i].site = "finally" /\ calls[i].ok
    /\ \E i \in ParameterWrites : calls[i].cmd = "ID" /\ calls[i].ok

-----------------------------------------------------------------------------
(* Claims on the settings phase *)

\* the progress notifications of the settings phase
SettingsProgress ==
    { i \in DOMAIN calls : calls[i].op = "progress" /\ PhaseOf(calls[i].site) = 3 }

RestoreDefaultsWrites == { i \in ParameterWrites : calls[i].cmd = "RE" }

\* the writes of a value the profile declares
DeclaredSettingWrites ==
    { i \in ParameterWrites : calls[i].site \in {"settings_loop", "finally"} }

\* C11: during the settings phase the progress callback receives 100 only
\* after an apply changes (AC) write has succeeded.
C11_HundredAfterApplyChanges ==
    \A i \in SettingsProgress :
        calls[i].val = 100 =>
            \E j \in ParameterWrites :
                j < i /\ calls[j].cmd = "AC" /\ calls[j].ok

\* the total the spec gives to the settings phase: the declared settings,
\* the write (WR) and the apply changes (AC), and the restore defaults (RE)
\* when it is made
SettingsTotal ==
    Len(profile.profile_settings) + 2
        + (IF profile.reset_settings \/ target = "port" THEN 1 ELSE 0)

\* the steps of the settings phase whose percentage has been computed
StepsReported ==
    IF pc = "settings_loop" THEN updater.setting_index - 1 ELSE updater.setting_index

\* C12: the percentages the settings phase reports are integers of 0..100,
\* each greater than the one reported before it; the total of the phase is
\* the number of declared settings plus 2, plus 1 when defaults are restored;
\* and while the phase runs the values reported are exactly 0 and the values
\* of completed * 100 div total of the steps reached so far, each once.
C12_ProgressPercentages ==
    /\ \A i \in SettingsProgress : calls[i].val \in 0..100
    /\ \A i, j \in SettingsProgress : i < j => calls[i].val < calls[j].val
    /\ SettingsProgress # {} => updater.num_settings = SettingsTotal
    /\ pc \in {"settings_loop", "settings_finish"} =>
          { calls[i].val : i \in SettingsProgress }
            = {0} \cup { (k * 100) \div SettingsTotal : k \in 1..StepsReported }

C12_Witness ==
    /\ pc = "settings_finish"
    /\ Len(profile.profile_settings) > 100
    /\ \E i \in SettingsProgress : calls[i].val = 100
    /\ Cardinality(SettingsProgress) < updater.num_settings

\* C13 as stated: at the end of a call with a profile, a restore defaults
\* (RE) write was issued exactly if reset_settings is true or the target is a
\* serial port, and it precedes every write of a declared setting.
C13_ResetIffRequestedOrPort ==
    pc = "done" /\ profile # NoProfile =>
        /\ RestoreDefaultsWrites # {}
              <=> (profile.reset_settings \/ target = "port")
        /\ \A i \in RestoreDefaultsWrites, j \in DeclaredSettingWrites : i < j

\* C13: a restore defaults (RE) write is issued only if reset_settings is
\* true or the target is a serial port; once the settings phase is past its
\* guards it has been issued exactly in that case, for a serial port whatever
\* reset_settings says; and it precedes every write of a declared setting.
C13_ResetIffRequestedOrPortOncePhaseBegun ==
    /\ RestoreDefaultsWrites # {}
          => (profile.reset_settings \/ target = "port")
    /\ updater.num_settings > 0 =>
          (RestoreDefaultsWrites # {}
              <=> (profile.reset_settings \/ target = "port"))
    /\ target = "port" /\ updater.num_settings > 0 => RestoreDefaultsWrites # {}
    /\ \A i \in RestoreDefaultsWrites, j \in DeclaredSettingWrites : i < j

C13_Witness ==
    /\ target = "port"
    /\ ~profile.reset_settings
    /\ \E i \in RestoreDefaultsWrites :
         \E j \in DeclaredSettingWrites : calls[j].site = "settings_loop" /\ i < j

\* the successful writes of the operating mode (AP)
OperatingModeWrites ==
    { i \in ParameterWrites : calls[i].cmd = "AP" /\ calls[i].ok }

\* C14: when a call on a serial port succeeds with a profile whose operating
\* mode (AP) is not declared or is not an API mode, the operating mode last
\* written to the device is API 1.
C14_PortLeftInApiMode ==
    /\ Exited
    /\ exc = NoException
    /\ target = "port"
    /\ DeclaredOperatingModes \cap {API_MODE, ESCAPED_API_MODE} = {}
    => \E i \in OperatingModeWrites :
          /\ calls[i].val = API_MODE
          /\ \A j \in OperatingModeWrites : j <= i

\* a remote node whose protocol the firmware of the profile changes, with
\* something to apply or reset
UnreachableCase ==
    /\ target = "remote"
    /\ updater.protocol_changed_by_fw
    /\ (Len(profile.profile_settings) > 0 \/ profile.reset_settings)

AutoApplyCalls == { i \in DOMAIN calls : calls[i].op = "enable_apply_changes" }

-----------------------------------------------------------------------------
(* Claims on the file system phase, the skipped settings phase and the
   entry point *)

\* the legacy remote strategy is entered with a protocol change predicted
LegacyRemoteUnreachableCase ==
    /\ target = "remote"
    /\ profile.filesystem_payload = "remote"
    /\ updater.device_hardware_version \in FilesystemSupportedHardware
    /\ (updater.protocol_changed_by_fw \/ updater.protocol_changed_by_settings)

ImageTransfers == { i \in DOMAIN calls : calls[i].op = "update_filesystem_image" }

\* C16: in the legacy remote strategy (remote target, remote file system
\* image in the archive), if the protocol is changed by the firmware or by
\* the settings the call fails with FilesystemUnreachable and the over the
\* air transfer of the image is never invoked.
C16_LegacyRemoteUnreachable ==
    LegacyRemoteUnreachableCase =>
        /\ ImageTransfers = {}
        /\ pc \in {"finally", "done"}
        /\ exc = Raise("UpdateProfileException", "FilesystemUnreachable")

C16_Witness ==
    /\ pc = "done"
    /\ LegacyRemoteUnreachableCase
    /\ updater.protocol_changed_by_settings
    /\ ~updater.protocol_changed_by_fw
    /\ exc.msg = "FilesystemUnreachable"

\* a profile with nothing to apply or reset, for a device handle
NothingToApplyCase ==
    /\ DeviceHandleTarget
    /\ profile # NoProfile
    /\ Len(profile.profile_settings) = 0
    /\ ~profile.reset_settings

SettingsPhaseCalls == { i \in DOMAIN calls : PhaseOf(calls[i].site) = 3 }

\* C17: with zero settings, reset_settings false and a device handle, the
\* settings phase makes no call at all: no parameter write and no change of
\* the auto-apply flag, which stays the one of the handle; when moreover the
\* firmware matches and the archive has no file system payload, the call
\* ends with no parameter write and no file system call, and without an
\* exception if every call it made on the device returned.
C17_NothingToApplySkipsSettings ==
    NothingToApplyCase =>
        /\ SettingsPhaseCalls = {}
        /\ ParameterWrites = {}
        /\ AutoApplyCalls = {}
        /\ device.apply_changes = entry.apply_changes
        /\ updater.num_settings = 0
        /\ /\ pc = "done"
           /\ entry.firmware_version = profile.firmware_version
           /\ ~has_filesystem(profile)
           => /\ FilesystemCalls = {}
              /\ /\ profile.filesystem_payload = "none"
                 /\ \A i \in DOMAIN calls : calls[i].ok
                 => exc = NoException

C17_Witness ==
    /\ pc = "done"
    /\ target = "local"
    /\ NothingToApplyCase
    /\ UpdateProfileEntered
    /\ entry.firmware_version = profile.firmware_version
    /\ profile.filesystem_payload = "none"
    /\ FlashCalls = {}
    /\ exc = NoException

\* C18: for a serial port target and an archive without the firmware
\* binaries, the call fails with InvalidProfile at the entry point: no
\* updater is built, no device handle is created and no call is made.
C18_PortNeedsLocalFirmware ==
    target = "port" /\ profile # NoProfile /\ ~profile.has_local_firmware =>
        /\ pc = "done"
        /\ exc = Raise("UpdateProfileException", "InvalidProfile")
        /\ calls = <<>>
        /\ ~UpdateProfileEntered
        /\ device = NoDevice

C18_Witness ==
    /\ pc = "done"
    /\ target = "port"
    /\ profile # NoProfile
    /\ ~profile.has_local_firmware
    /\ exc.msg = "InvalidProfile"

DelegatedCalls == { i \in DOMAIN calls : calls[i].op = "apply_profile" }

\* C19 as stated: when the comm interface of the target supports apply
\* profile, the call is delegated to it and the orchestrator makes no
\* operation on the device; only otherwise is the orchestrator run.
C19_DelegatedWhenSupported ==
    /\ pc = "done" /\ entry.supports_apply_profile =>
          DelegatedCalls # {} /\ DeviceOperations = {}
    /\ UpdateProfileEntered => ~entry.supports_apply_profile

\* C19: when the comm interface of the target supports apply profile, the
\* orchestrator is never run and makes no operation on the device, and once
\* the profile path is validated and the archive parsed the call is the one
\* call of apply_profile on that interface; the orchestrator is run and
\* apply_profile is left uncalled only when the interface does not support
\* it.
C19_DelegatedWhenSupportedAndParsed ==
    /\ entry.supports_apply_profile =>
          /\ ~UpdateProfileEntered
          /\ DeviceOperations = {}
          /\ device = entry
    /\ entry.supports_apply_profile /\ profile # NoProfile =>
          /\ pc = "done"
          /\ exc = NoException
          /\ Len(calls) = 1
          /\ DelegatedCalls = {1}
    /\ UpdateProfileEntered => ~entry.supports_apply_profile
    /\ DelegatedCalls # {} => entry.supports_apply_profile

C19_Witness ==
    /\ pc = "done"
    /\ target = "remote"
    /\ entry.supports_apply_profile
    /\ DelegatedCalls = {1}

-----------------------------------------------------------------------------
(* Claims on the parsing of an archive *)

\* the commands of the setting elements of profile.xml
RawCommands == { archive.at_settings[i].command : i \in DOMAIN archive.at_settings }

CataloguedCommands == { e.command : e \in archive.firmware_settings }

\* C20: after parsing, the settings of the profile hold exactly one setting
\* for every command of profile.xml, and a command the firmware description
\* does not list is kept with type NO_TYPE and format NO_FORMAT.
C20_OneSettingPerRawCommand ==
    pc = "parsed" =>
        /\ Len(profile.profile_settings) = Cardinality(RawCommands)
        /\ \A c \in RawCommands :
              \E i \in DOMAIN profile.profile_settings :
                 /\ profile.profile_settings[i].name = c
                 /\ c \notin CataloguedCommands =>
                       /\ profile.profile_settings[i].type = NO_TYPE
                       /\ profile.profile_settings[i].format = NO_FORMAT

-----------------------------------------------------------------------------
(* Claims on the profile object and on the order of the writes *)

\* the fields of a profile that come from parsing its archive
ParsedFields(prof) ==
    << prof.flash_firmware_option, prof.reset_settings, prof.firmware_version,
       prof.hardware_version, prof.protocol, prof.profile_settings >>

\* C22: running the orchestrator with a parsed profile changes none of its
\* parsed fields (flash option, reset flag, firmware and hardware version,
\* protocol, settings).
C22_ParsedFieldsUnchanged ==
    [][profile # NoProfile => ParsedFields(profile') = ParsedFields(profile)]_vars

\* the settings phase made its apply changes (AC) write with success
SettingsPhaseCompleted ==
    \E i \in ParameterWrites :
        calls[i].cmd = "AC" /\ calls[i].ok /\ calls[i].site = "settings_commit"

\* the writes the loop over the declared settings made, as name and value
LoopWrites ==
    LET IsLoopWrite(c) == c.op = "set_parameter" /\ c.site = "settings_loop"
        loop == SelectSeq(calls, IsLoopWrite)
    IN [i \in DOMAIN loop |-> [name |-> loop[i].cmd, value |-> loop[i].val]]

\* the declared settings but the operating mode (AP) of a local target
DeclaredButLocalOperatingMode ==
    LET IsWritten(setting) == ~(target \in {"local", "port"} /\ setting.name = "AP")
    IN SelectSeq(profile.profile_settings, IsWritten)

\* the writes of the settings phase come in the order: declared settings,
\* one write (WR), apply changes (AC)
CommitOrder ==
    LET phase == { i \in ParameterWrites : PhaseOf(calls[i].site) = 3 }
        wr == { i \in phase : calls[i].cmd = "WR" }
        ac == { i \in phase : calls[i].cmd = "AC" }
    IN /\ Cardinality(wr) = 1
       /\ \A i \in phase, w \in wr :
             /\ calls[i].site = "settings_loop" => i < w
             /\ i > w => i \in ac
       /\ \A i \in phase : (\A j \in phase : j <= i) => calls[i].cmd = "AC" /\ calls[i].ok

-----------------------------------------------------------------------------
(* Claims on the retries *)

\* the attempts made on the device for a parameter, in repetition r of the
\* operation
Attempts(cmd, r) ==
    { i \in DOMAIN calls :
        calls[i].site = "attempt" /\ calls[i].cmd = cmd /\ calls[i].val = r }

\* the parameter reads and writes update_profile made through the helpers
HelperCalls ==
    { i \in DOMAIN calls : calls[i].op \in {"get_parameter", "set_parameter"} }

\* the phase ended with call i: nothing of the same phase follows it
EndsPhase(i) ==
    /\ pc \in {"finally", "done"}
    /\ first_exc # NoException
    /\ \A j \in DOMAIN calls :
          j > i /\ calls[j].op # "apply_profile"
             => PhaseOf(calls[j].site) # PhaseOf(calls[i].site)

\* C29 as stated, on the calls of update_profile: a parameter read or write
\* that failed after its attempts makes its phase fail; nothing is retried
\* further.
C29_FailedOperationEndsPhase ==
    \A i \in HelperCalls : ~calls[i].ok => EndsPhase(i)

\* an operation of at most 3 attempts that stops at the first success and
\* raises after the last failure
BoundedAttempts(cmd, r) ==
    /\ Cardinality(Attempts(cmd, r)) <= 3
    /\ \A i \in Attempts(cmd, r) :
          calls[i].ok => /\ pc = "returned"
                         /\ \A j \in DOMAIN calls : j <= i
    /\ pc = "returned" /\ Attempts(cmd, r) # {} =>
          Cardinality({ i \in Attempts(cmd, r) : calls[i].ok }) <= 1

\* C29: a parameter read (VR, HV) or write makes at most 3 attempts and stops
\* at the first one that succeeds; an attempt is repeated only after a
\* timeout (reads) or a timeout or AT command error (writes); after the third
\* failed attempt the operation raises.  In update_profile a read or write
\* that raised makes its phase fail, but the apply changes (AC) write, which
\* the apply changes step repeats.
C29_BoundedRetriesThenPhaseFails ==
    /\ [](/\ BoundedAttempts("VR", 1)
          /\ BoundedAttempts("NI", 1)
          /\ \A r \in 1..3 : BoundedAttempts("AC", r)
          /\ \A cmd \in {"VR", "NI"} :
                Cardinality(Attempts(cmd, 1)) = 3
                /\ (\A i \in Attempts(cmd, 1) : ~calls[i].ok)
                => pc = "raised" /\ exc # NoException)
    /\ [][/\ pc = "get_parameter" /\ calls # <<>> /\ calls' # calls
             => exc.type = "TimeoutException"
          /\ pc = "set_parameter" /\ calls # <<>> /\ calls' # calls
             => exc.type \in {"TimeoutException", "ATCommandException"}
          /\ /\ pc = "apply_changes" /\ calls # <<>> /\ calls' # calls
             /\ calls'[Len(calls')].val = calls[Len(calls)].val
             => exc.type \in {"TimeoutException", "ATCommandException"}]_vars
    /\ [](\A i \in HelperCalls :
            ~calls[i].ok /\ calls[i].cmd # "AC" => EndsPhase(i))

C29_Witness ==
    /\ pc = "raised"
    /\ Cardinality(Attempts("NI", 1)) = 3
    /\ exc = Raise("XBeeException", "SetParameter")

\* the attempts of the apply changes step
ApplyChangesAttempts == UNION { Attempts("AC", r) : r \in 1..3 }

\* the apply changes writes of the settings phase
ApplyChangesWrites ==
    { i \in ParameterWrites : calls[i].cmd = "AC" /\ calls[i].site = "settings_commit" }

\* C30 as stated: the apply changes step stops at the first AC write that
\* succeeds, and fails only after 3 repetitions, 9 AC write attempts, failed.
C30_FailsAfterNineAttempts ==
    /\ \A i \in ApplyChangesAttempts :
          calls[i].ok => pc = "returned" /\ i = Len(calls)
    /\ pc = "raised" /\ ApplyChangesAttempts # {} =>
          Cardinality(ApplyChangesAttempts) = 9

\* C30: the apply changes step repeats its AC write, of at most 3 attempts,
\* up to 3 times: it stops at the first AC write that succeeds, so a phase
\* that completes holds exactly one successful AC write, its last; and it
\* fails only after the 3 repetitions failed, which takes from 3 to 9
\* attempts.
C30_FailsAfterThreeRepetitions ==
    /\ \A i \in ApplyChangesAttempts :
          calls[i].ok => pc = "returned" /\ i = Len(calls)
    /\ \A i \in DOMAIN calls :
          calls[i].site = "attempt" /\ calls[i].cmd = "AC" => calls[i].val \in 1..3
    /\ Cardinality(ApplyChangesAttempts) <= 9
    /\ pc = "raised" /\ ApplyChangesAttempts # {} =>
          /\ \A r \in 1..3 : Attempts("AC", r) # {}
          /\ \A i \in ApplyChangesAttempts : ~calls[i].ok
          /\ Cardinality(ApplyChangesAttempts) \in 3..9
    /\ Cardinality({ i \in ApplyChangesWrites : calls[i].ok }) <= 1
    /\ Cardinality(ApplyChangesWrites) <= 3
    /\ \A i \in ApplyChangesWrites :
          calls[i].ok => \A j \in ApplyChangesWrites : j <= i
    /\ \A i \in ApplyChangesWrites :
          ~calls[i].ok /\ i = Len(calls) /\ pc \in {"finally", "done"}
             => Cardinality(ApplyChangesWrites) = 3

C30_Witness ==
    /\ pc = "raised"
    /\ Cardinality(ApplyChangesAttempts) = 9

-----------------------------------------------------------------------------
(* Claims on the profile object *)

\* C21: when the scratch directory of the archive was created, it no longer
\* exists once the profile object has been released.
C21_ScratchRemovedOnRelease ==
    pc = "released" /\ profile.profile_folder # "None" => ~archive.scratch_dir

AccessorCalls == { i \in DOMAIN calls : calls[i].site = "access" }

\* C23: over a sequence of calls of the asset accessors of one profile, the
\* archive is extracted at most once, by the first access, and every later
\* access of an accessor gives what its first access gave, without
\* extracting.
C23_ExtractedOnceSamePath ==
    /\ Cardinality({ i \in AccessorCalls : calls[i].val = 1 }) <= 1
    /\ \A i \in AccessorCalls :
          calls[i].val = 1 => \A j \in AccessorCalls : i <= j
    /\ \A i, j \in AccessorCalls :
          i < j /\ calls[i].op = calls[j].op =>
             /\ calls[j].ok = calls[i].ok
             /\ calls[j].cmd = calls[i].cmd

\* C24: get_setting_default_value never raises.
C24_DefaultValueNeverRaises ==
    \A i \in DOMAIN calls :
        calls[i].op = "get_setting_default_value" => calls[i].ok

-----------------------------------------------------------------------------
(* Claims on opening the archive *)

DescriptorsParsed ==
    { i \in DOMAIN calls :
        calls[i].op \in {"_parse_xml_profile_file", "_parse_xml_firmware_file"} }

FailsWith(message) ==
    /\ pc = "raised"
    /\ exc.type = "ReadProfileException"
    /\ exc.msg[2] = message
    /\ DescriptorsParsed = {}

\* C25: opening an archive without the root profile.xml fails with the
\* missing manifest error before any descriptor is parsed; otherwise an
\* archive with no member under the firmware folder prefix fails with the
\* missing firmware folder error; otherwise an archive with no firmware
\* description XML fails with the firmware XML missing error.
C25_IntegrityErrorsInOrder ==
    pc # "check_integrity" =>
       LET files == archive.filelist
       IN /\ "profile.xml" \notin files => FailsWith("_ERROR_PROFILE_XML_NOT_EXIST")
          /\ ("profile.xml" \in files
              /\ files \cap {"radio_fw/fw.xml", "radio_fw/fw.ebin"} = {})
                => FailsWith("_ERROR_FIRMWARE_FOLDER_NOT_EXIST")
          /\ ("profile.xml" \in files
              /\ files \cap {"radio_fw/fw.xml", "radio_fw/fw.ebin"} # {}
              /\ "radio_fw/fw.xml" \notin files)
                => FailsWith("_ERROR_FIRMWARE_XML_NOT_EXIST")

C25_Witness ==
    /\ archive.filelist = {"profile.xml", "old/profile.xml", "radio_fw/fw.ebin"}
    /\ FailsWith("_ERROR_FIRMWARE_XML_NOT_EXIST")

\* the firmware version as a 2-byte hexadecimal string
RenderedFirmwareVersion == hex_to_string(int_to_bytes(archive.firmware_version, 2))

\* the value of a hexadecimal digit
DigitValue(character) == (CHOOSE d \in 1..16 : HexDigits[d] = character) - 1

\* C27: for every firmware version, when the region lock of the description
\* is 99, the region of the profile is 0 if the firmware version as a 2-byte
\* hexadecimal string is not 4 characters long, and else the integer value of
\* the character at index 1 of that string.
C27_RegionResolved ==
    (archive.region_lock = 99
     /\ \E i \in DOMAIN calls : calls[i].op = "_parse_xml_firmware_file") =>
       /\ pc = "parsed"
       /\ profile.region_lock =
             IF Len(RenderedFirmwareVersion) # 4 THEN 0
             ELSE DigitValue(RenderedFirmwareVersion[2])

-----------------------------------------------------------------------------
(* Claims on the conversion of the setting values *)

\* the rows of the table that name a type and a format
Tabled(type, format) ==
    \/ type \in {"number", "combo", "button", NO_TYPE}
    \/ type = "text" /\ format \in {"ASCII", "PHONE", "HEX", NO_FORMAT, "IPV4"}

\* the setting was passed through unchanged
PassedThrough ==
    /\ profile.bytearray_value.kind = "str"
    /\ profile.bytearray_value.value = profile.value

\* the rows of the table hold for the setting
TabledRowsHold ==
    /\ profile.type \in {"number", "combo"} =>
          profile.bytearray_value = hex_string_to_bytes(profile.value)
    /\ profile.type = "text" /\ profile.format \in {"ASCII", "PHONE"} =>
          profile.bytearray_value = Utf8Bytes(profile.value)
    /\ profile.type = "text" /\ profile.format \in {"HEX", NO_FORMAT} =>
          profile.bytearray_value = hex_string_to_bytes(profile.value)
    /\ profile.type = "text" /\ profile.format = "IPV4" =>
          profile.bytearray_value = Ipv4Bytes(profile.value)
    /\ profile.type \in {"button", NO_TYPE} =>
          profile.bytearray_value = Bytearray(<< >>)

\* C26: number or combo with any format gives the hex decoding of the value;
\* text with ASCII or PHONE its UTF-8 bytes; text with HEX or no format the
\* hex decoding; text with IPV4 one byte per token between dots; button or
\* no type the empty byte sequence; every other combination passes the
\* value through unchanged.
C26_CodecTable ==
    pc = "encoded" =>
       /\ TabledRowsHold
       /\ ~ Tabled(profile.type, profile.format) =>
             PassedThrough

\* C26, amended: as the table, but text with IPV6 and a value holding ":"
\* gives the UTF-8 bytes of the value; every combination left passes the
\* value through unchanged.
C26_CodecTableWithIpv6 ==
    pc = "encoded" =>
       /\ TabledRowsHold
       /\ ( /\ profile.type = "text"
            /\ profile.format = "IPV6"
            /\ \E i \in DOMAIN profile.value : profile.value[i] = ":" ) =>
             /\ profile.bytearray_value.kind = "bytearray"
             /\ profile.bytearray_value = Utf8Bytes(profile.value)
       /\ ( /\ ~ Tabled(profile.type, profile.format)
            /\ ~ ( /\ profile.type = "text"
                   /\ profile.format = "IPV6"
                   /\ \E i \in DOMAIN profile.value : profile.value[i] = ":" ) ) =>
             PassedThrough

C26_Witness ==
    /\ pc = "encoded"
    /\ profile.type = "text"
    /\ profile.format = "IPV6"
    /\ profile.value = << "F", "E", ":", ":", "1" >>
    /\ profile.bytearray_value = Bytearray(<< 70, 69, 58, 58, 49 >>)

-----------------------------------------------------------------------------
(* Claims on the cleanup and on what follows the writes of the settings *)

\* the calls a step adds to the log
NewCalls == SubSeq(calls', Len(calls) + 1, Len(calls'))

\* the parameter writes and auto-apply switches a step makes
NewWrites ==
    LET IsWrite(c) == c.op \in {"set_parameter", "enable_apply_changes"}
    IN SelectSeq(NewCalls, IsWrite)

\* C31: the cleanup writes the operating mode iff the target is local, a
\* withheld operating mode exists, it differs from the mode of the device and
\* it is API mode 1 or 2; it then enables auto-apply, writes AP, writes WR and
\* sets auto-apply back to the value it had when the cleanup began; in every
\* other case the cleanup makes no parameter write.
C31_OperatingModeAppliedInCleanup ==
    [][ pc = "finally" /\ pc' = "done" =>
          IF /\ updater.is_local
             /\ updater.xpro_ap # NoneBytes
             /\ updater.xpro_ap # <<>>
             /\ updater.xpro_ap[1] # device.operating_mode
             /\ updater.xpro_ap[1] \in {API_MODE, ESCAPED_API_MODE}
          THEN /\ Len(NewWrites) = 4
               /\ NewWrites[1].op = "enable_apply_changes" /\ NewWrites[1].val = 1
               /\ NewWrites[2].op = "set_parameter" /\ NewWrites[2].cmd = "AP"
               /\ NewWrites[2].val = updater.xpro_ap[1] /\ NewWrites[2].ok
               /\ NewWrites[3].op = "set_parameter" /\ NewWrites[3].cmd = "WR"
               /\ NewWrites[3].ok
               /\ NewWrites[4].op = "enable_apply_changes"
               /\ device'.apply_changes = device.apply_changes
          ELSE NewWrites = <<>> ]_vars

\* defaults were restored on a local device and no declared setting was
\* handled yet
RestoredDefaultsOnLocal ==
    /\ updater.is_local
    /\ updater.next_setting = 1
    /\ \E i \in ParameterWrites :
          calls[i].cmd = "RE" /\ calls[i].site = "settings_begin" /\ calls[i].ok

\* C32: when a restore defaults write is issued on a local device, the
\* operating mode remembered for the cleanup is the operating mode the
\* device is in at that moment.
C32_CurrentModeRemembered ==
    RestoredDefaultsOnLocal => updater.xpro_ap = <<device.operating_mode>>

\* C32, amended: when a restore defaults write is made on a local device,
\* the operating mode remembered for the cleanup is AT mode (0); the
\* operating mode the device is in is written back at once, by the AP write
\* that follows RE.
C32_AtModeRememberedCurrentWrittenBack ==
    RestoredDefaultsOnLocal =>
       /\ updater.xpro_ap = <<0>>
       /\ \E i \in ParameterWrites :
             /\ calls[i].cmd = "RE" /\ calls[i].site = "settings_begin"
             /\ i + 1 \in ParameterWrites
             /\ calls[i + 1].cmd = "AP"
             /\ calls[i + 1].val = device.operating_mode

C32_Witness ==
    /\ RestoredDefaultsOnLocal
    /\ pc = "settings_loop"
    /\ target = "local"
    /\ device.operating_mode = ESCAPED_API_MODE
    /\ updater.xpro_ap = <<0>>

\* a declared setting is named in the given list
DeclaredAmong(names) ==
    \E i \in DOMAIN profile.profile_settings :
        profile.profile_settings[i].name \in names

\* the restore defaults (RE) write was made
ResetIssued ==
    \E i \in ParameterWrites :
        calls[i].cmd = "RE" /\ calls[i].site = "settings_begin" /\ calls[i].ok

\* the step ends the settings phase of a device handle target with success
CompletesSettingsOnHandle ==
    pc = "settings_finish" /\ pc' = "filesystem" /\ DeviceHandleTarget

\* the calls of a step that drop the cached network
NewNetworkDrops ==
    LET IsDrop(c) == c.op \in {"network_clear", "network_remove_device"}
    IN SelectSeq(NewCalls, IsDrop)

\* what the step does to the cached network when it has to drop it: a local
\* device clears it, a remote device is removed from it
DropsAsTargetKind(must_drop) ==
    /\ NewNetworkDrops # <<>> <=> must_drop
    /\ Len(NewNetworkDrops) <= 1
    /\ \A i \in DOMAIN NewNetworkDrops :
          NewNetworkDrops[i].op = IF target = "local" THEN "network_clear"
                                  ELSE "network_remove_device"

\* C33: after a completed settings phase on a device handle target, the
\* cached network is dropped whenever a network setting (ID, CH, HP, CM, BR,
\* EE, KY) was declared, a reset was issued, or a protocol change was
\* predicted from the firmware or from the settings, and in no other case.
C33_NetworkDroppedOnAnyPrediction ==
    [][ CompletesSettingsOnHandle =>
          DropsAsTargetKind(\/ DeclaredAmong({"ID", "CH", "HP", "CM", "BR", "EE", "KY"})
                            \/ ResetIssued
                            \/ updater.protocol_changed_by_fw
                            \/ updater.protocol_changed_by_settings) ]_vars

\* C33, amended: as above, but of the predicted protocol changes only the
\* one predicted from the settings counts.
C33_NetworkDroppedOnSettingsPrediction ==
    [][ CompletesSettingsOnHandle =>
          DropsAsTargetKind(\/ DeclaredAmong({"ID", "CH", "HP", "CM", "BR", "EE", "KY"})
                            \/ ResetIssued
                            \/ updater.protocol_changed_by_settings) ]_vars

C33_Witness ==
    /\ pc = "filesystem"
    /\ target = "local"
    /\ updater.protocol_changed_by_fw
    /\ ~updater.protocol_changed_by_settings
    /\ ~ResetIssued
    /\ SettingsPhaseCompleted
    /\ \A i \in DOMAIN calls : calls[i].op # "network_clear"

\* the step of the settings phase of a device handle target that comes to
\* the point where the device information is read again
ReachesInfoRead ==
    /\ pc = "settings_finish"
    /\ pc' # "settings_finish"
    /\ DeviceHandleTarget
    /\ exc'.msg \notin {"PortSettings", "SerialReconfigureFailed"}

NewInfoReads ==
    LET IsRead(c) == c.op = "read_device_info"
    IN SelectSeq(NewCalls, IsRead)

\* the device information is read iff must_read: at most 3 attempts, the
\* first success is the last attempt, and 3 failures end the call with
\* TargetInfoUpdateFailed
InfoReadAsRequired(must_read) ==
    /\ NewInfoReads # <<>> <=> must_read
    /\ Len(NewInfoReads) <= 3
    /\ \A i \in DOMAIN NewInfoReads : NewInfoReads[i].ok => i = Len(NewInfoReads)
    /\ pc' = "filesystem" =>
          (NewInfoReads = <<>> \/ NewInfoReads[Len(NewInfoReads)].ok)
    /\ pc' # "filesystem" =>
          /\ Len(NewInfoReads) = 3
          /\ ~NewInfoReads[3].ok
          /\ exc' = Raise("UpdateProfileException", "TargetInfoUpdateFailed")

\* C34: after the writes of a settings phase on a device handle target, the
\* device information is read again iff a cache setting (NI, CE, SM, BR, MY)
\* was declared, a reset was issued, or a protocol change was predicted; the
\* read makes at most 3 attempts, stops at the first success, and fails the
\* call with TargetInfoUpdateFailed after 3 failures.
C34_InfoReadOnAnyPrediction ==
    [][ ReachesInfoRead =>
          InfoReadAsRequired(\/ DeclaredAmong({"NI", "CE", "SM", "BR", "MY"})
                             \/ ResetIssued
                             \/ updater.protocol_changed_by_fw
                             \/ updater.protocol_changed_by_settings) ]_vars

\* C34, amended: as above, but of the predicted protocol changes only the
\* one predicted from the settings counts.
C34_InfoReadOnSettingsPrediction ==
    [][ ReachesInfoRead =>
          InfoReadAsRequired(\/ DeclaredAmong({"NI", "CE", "SM", "BR", "MY"})
                             \/ ResetIssued
                             \/ updater.protocol_changed_by_settings) ]_vars

C34_Witness ==
    /\ pc = "finally"
    /\ DeviceHandleTarget
    /\ exc = Raise("UpdateProfileException", "TargetInfoUpdateFailed")
    /\ Cardinality({ i \in DOMAIN calls : calls[i].op = "read_device_info" }) = 3

\* the calls of a step that close, reconfigure and open the connection
NewConnectionCalls ==
    LET IsConnection(c) == c.op \in {"close", "apply_settings", "open"}
        made == SelectSeq(NewCalls, IsConnection)
    IN [i \in DOMAIN made |-> made[i].op]

\* C35: in a settings phase that completes on a local device, the connection
\* is closed, reconfigured and opened again iff the profile declares one of
\* BD, NB, SB, D7 or a reset was made; else the phase neither closes nor
\* opens it.
C35_ReconnectedIffSerialChanged ==
    [][ pc = "settings_finish" /\ pc' = "filesystem" /\ updater.is_local =>
          NewConnectionCalls =
             IF DeclaredAmong({"BD", "NB", "SB", "D7"}) \/ ResetIssued
             THEN <<"close", "apply_settings", "open">>
             ELSE <<>> ]_vars

C35_Witness ==
    /\ pc = "filesystem"
    /\ target = "local"
    /\ ResetIssued
    /\ ~DeclaredAmong({"BD", "NB", "SB", "D7"})
    /\ \E i \in DOMAIN calls :
          calls[i].op = "apply_settings" /\ calls[i].site = "settings_finish"

\* the step runs the legacy file system update of a local device
LegacyLocalSession ==
    /\ pc = "filesystem"
    /\ \E i \in DOMAIN NewCalls : NewCalls[i].op = "connect"

NewDisconnects == { i \in DOMAIN NewCalls : NewCalls[i].op = "disconnect" }

\* C36: in the legacy file system update of a local device the disconnect is
\* attempted exactly once on every exit path (after success and after a
\* failure of connect, format or put_dir), and an
\* InvalidOperatingModeException it raises is swallowed: it does not fail
\* the call.
C36_DisconnectOnceAndSwallowed ==
    [][ LegacyLocalSession =>
          /\ NewDisconnects = { Len(NewCalls) }
          /\ NewCalls[Len(NewCalls)].cmd = "InvalidOperatingModeException" =>
                /\ exc'.type # "InvalidOperatingModeException"
                /\ (\A i \in 1..(Len(NewCalls) - 1) : NewCalls[i].ok) =>
                      exc' = NoException ]_vars

C36_Witness ==
    /\ pc = "finally"
    /\ exc = NoException
    /\ \E i \in DOMAIN calls :
          /\ calls[i].op = "disconnect"
          /\ calls[i].cmd = "InvalidOperatingModeException"
    /\ \E i \in DOMAIN calls : calls[i].op = "put_dir" /\ calls[i].ok

\* the phases of the calls made come in order
PhasesInOrder ==
    \A i \in 1..(Len(calls) - 1) :
        PhaseOf(calls[i].site) <= PhaseOf(calls[i + 1].site)

\* C37: in every execution the phases come strictly in order: no parameter
\* write of the settings phase before the firmware flash has returned, no
\* file system operation before the settings phase has finished, and the
\* cleanup runs after all of them, exactly once.
C37_PhasesInOrderCleanupOnce ==
    /\ [](PhasesInOrder)
    /\ [][ /\ (\E i \in DOMAIN NewCalls : NewCalls[i].op = "update_firmware")
              => ParameterWrites = {}
           /\ (\E i \in DOMAIN NewCalls :
                  /\ NewCalls[i].op = "set_parameter"
                  /\ PhaseOf(NewCalls[i].site) = 3)
              => FilesystemCalls = {}
           /\ UpdateProfileEntered' /\ pc' = "done" => pc = "finally"
           /\ pc = "finally" => pc' = "done"
           /\ pc = "done" => FALSE ]_vars

C37_Witness ==
    /\ Exited
    /\ exc = NoException
    /\ FlashCalls # {}
    /\ \E i \in ParameterWrites : calls[i].site = "settings_loop"
    /\ \E i \in FilesystemCalls : calls[i].op = "put_dir"
    /\ \E i \in ParameterWrites : calls[i].site = "finally"

\* C38: whenever the call fails with SettingsUnreachable, the firmware was
\* not flashed earlier in the call.
C38_UnreachableBeforeFlash ==
    Exited /\ exc = Raise("UpdateProfileException", "SettingsUnreachable") =>
       FlashCalls = {}

\* C39: if the profile holds a file system payload and the call returns with
\* success, a file system transfer (put_dir or the OTA image) was made.
C39_PayloadTransferred ==
    Exited /\ exc = NoException /\ has_filesystem(profile) =>
       \E i \in DOMAIN calls :
          /\ calls[i].op \in {"put_dir", "update_filesystem_image"}
          /\ calls[i].ok

\* C40: for a serial port target, the device handle built and opened after
\* the flash is closed when the call ends, on every exit path.
C40_RecoveryHandleClosed ==
    ( /\ Exited
      /\ target = "port"
      /\ \E i \in DOMAIN calls :
            calls[i].op = "open" /\ calls[i].site = "recovery_open" /\ calls[i].ok )
       => ~device.open

====
